---------------------------- MODULE Spec2Model ----------------------------
(***************************************************************************)
(* XML Encryption context (xmlenc.c) of the XMLSec library: the template   *)
(* reader, the top-level encrypt/decrypt operations and the finalizer,     *)
(* modelled as a state machine over one encryption context, one template   *)
(* (EncryptedData / EncryptedKey element) and one host document.           *)
(*                                                                         *)
(* Every top-level operation is one action.  The collaborators that are    *)
(* not part of xmlenc.c (transform chain, cipher, base64 codec, DOM        *)
(* helpers, key manager) are modelled from their documented contract.      *)
(***************************************************************************)
EXTENDS Integers, Sequences, FiniteSets, TLC

(***************************************************************************)
(* Bounds of the model.                                                    *)
(***************************************************************************)
\* longest plaintext handed to BinaryEncrypt
MaxData == 1
\* top-level operations run in one behaviour
MaxOps == 2
\* contexts created one after another (Finalize, then Initialize again)
MaxLives == 2
\* most children of a template in the family with children in any order
MaxKids == 3
\* octets appended to the inBuf of the XSLT stage
MaxIn == 3
\* calls of readNode and execute made on the XSLT stage
MaxCalls == 4

(***************************************************************************)
(* Optional values (C pointers): <<>> is NULL, <<x>> points to x.          *)
(***************************************************************************)
None == <<>>
Some(x) == <<x>>
IsNull(p) == Len(p) = 0
Val(p) == p[1]
\* a NULL xmlChar* attribute value
NULLSTR == "NULL"

(***************************************************************************)
(* Octets and the base64 codec.                                            *)
(***************************************************************************)
\* the base64 padding character '=' (the 65th symbol besides sextets 0..63)
Pad == 64

RECURSIVE Base64Encode(_)
Base64Encode(bs) ==
    IF Len(bs) = 0 THEN <<>>
    ELSE IF Len(bs) = 1
         THEN << bs[1] \div 4, (bs[1] % 4) * 16, Pad, Pad >>
    ELSE IF Len(bs) = 2
         THEN << bs[1] \div 4, (bs[1] % 4) * 16 + bs[2] \div 16,
                 (bs[2] % 16) * 4, Pad >>
    ELSE << bs[1] \div 4, (bs[1] % 4) * 16 + bs[2] \div 16,
            (bs[2] % 16) * 4 + bs[3] \div 64, bs[3] % 64 >>
         \o Base64Encode(SubSeq(bs, 4, Len(bs)))

\* one group of four symbols; only the last group may carry padding
Base64Group(g, isLast) ==
    IF g[1] = Pad \/ g[2] = Pad THEN [ok |-> FALSE, out |-> <<>>]
    ELSE IF g[3] = Pad
         THEN IF isLast /\ g[4] = Pad /\ g[2] % 16 = 0
              THEN [ok |-> TRUE, out |-> << g[1] * 4 + g[2] \div 16 >>]
              ELSE [ok |-> FALSE, out |-> <<>>]
    ELSE IF g[4] = Pad
         THEN IF isLast /\ g[3] % 4 = 0
              THEN [ok |-> TRUE,
                    out |-> << g[1] * 4 + g[2] \div 16,
                               (g[2] % 16) * 16 + g[3] \div 4 >>]
              ELSE [ok |-> FALSE, out |-> <<>>]
    ELSE [ok |-> TRUE,
          out |-> << g[1] * 4 + g[2] \div 16,
                     (g[2] % 16) * 16 + g[3] \div 4,
                     (g[3] % 4) * 64 + g[4] >>]

RECURSIVE Base64Decode(_)
Base64Decode(cs) ==
    IF Len(cs) = 0 THEN [ok |-> TRUE, out |-> <<>>]
    ELSE IF Len(cs) < 4 \/ \E i \in 1..Len(cs) : cs[i] \notin 0..Pad
         THEN [ok |-> FALSE, out |-> <<>>]
    ELSE LET g == Base64Group(SubSeq(cs, 1, 4), Len(cs) = 4)
             r == Base64Decode(SubSeq(cs, 5, Len(cs)))
         IN  IF g.ok /\ r.ok THEN [ok |-> TRUE, out |-> g.out \o r.out]
             ELSE [ok |-> FALSE, out |-> <<>>]

(***************************************************************************)
(* Keys and the cipher transform.                                          *)
(***************************************************************************)
\* key data types; the cipher of the model is an "aes" block cipher
KeyAes == [type |-> "aes", val |-> 1]
KeyAes2 == [type |-> "aes", val |-> 3]
KeyRsa == [type |-> "rsa", val |-> 5]
Keys == {KeyAes, KeyAes2, KeyRsa}

\* xmlSecKeyMatch(key, NULL, keyReq)
KeyMatch(key, req) == req = "any" \/ key.type = req

\* the cipher: encryption prepends an initialisation vector octet (derived
\* from the key) and shifts every octet by the key; decryption undoes it
\* and fails on input that carries no initialisation vector
CipherApply(encode, key, data) ==
    IF encode
    THEN [ok |-> TRUE,
          out |-> << (key.val * 2) % 256 >>
                  \o [i \in 1..Len(data) |-> (data[i] + key.val) % 256]]
    ELSE IF Len(data) = 0 \/ data[1] # (key.val * 2) % 256
         THEN [ok |-> FALSE, out |-> <<>>]
         ELSE [ok |-> TRUE,
               out |-> [i \in 1..(Len(data) - 1) |->
                           (data[i + 1] + 256 - key.val) % 256]]

(***************************************************************************)
(* DOM nodes of the host document and their octet serialization.           *)
(* An element dumps as <open(name)> kids <close(name)>, a text node as one *)
(* octet; parsing is the inverse and fails on anything else.               *)
(***************************************************************************)
ElemNames == <<"secret", "item", "stylesheet", "copy">>
TextVals == <<"42", "x">>
Elem(name, kids) == [tag |-> "elem", name |-> name, kids |-> kids]
Text(v) == [tag |-> "text", name |-> v, kids |-> <<>>]
\* the place of the EncryptedData / EncryptedKey element inside a document
EncNode == [tag |-> "enc", name |-> "EncryptedData", kids |-> <<>>]

IndexOf(seq, x) == CHOOSE i \in 1..Len(seq) : seq[i] = x
OpenCode(name) == 10 + IndexOf(ElemNames, name)
CloseCode(name) == 20 + IndexOf(ElemNames, name)
TextCode(v) == 30 + IndexOf(TextVals, v)
\* the octets an EncryptedData element dumps as (never valid plaintext here)
EncCode == 40

RECURSIVE DumpNode(_)
\* xmlNodeDumpOutput(output, doc, node, 0, 0, NULL)
DumpNode(n) ==
    IF n.tag = "text" THEN << TextCode(n.name) >>
    ELSE IF n.tag = "enc" THEN << EncCode >>
    ELSE LET DumpKids[i \in 0..Len(n.kids)] ==
                 IF i = 0 THEN <<>> ELSE DumpKids[i - 1] \o DumpNode(n.kids[i])
         IN  << OpenCode(n.name) >> \o DumpKids[Len(n.kids)]
             \o << CloseCode(n.name) >>

DumpNodes(ns) ==
    LET D[i \in 0..Len(ns)] ==
            IF i = 0 THEN <<>> ELSE D[i - 1] \o DumpNode(ns[i])
    IN  D[Len(ns)]

ParseFail == [ok |-> FALSE, nodes |-> <<>>, rest |-> <<>>]

RECURSIVE ParseList(_)
\* parses nodes up to the end of input or up to a closing tag
ParseList(bs) ==
    IF Len(bs) = 0 THEN [ok |-> TRUE, nodes |-> <<>>, rest |-> <<>>]
    ELSE IF bs[1] \in {30 + i : i \in 1..Len(TextVals)}
    THEN LET r == ParseList(Tail(bs))
         IN  IF r.ok
             THEN [ok |-> TRUE,
                   nodes |-> << Text(TextVals[bs[1] - 30]) >> \o r.nodes,
                   rest |-> r.rest]
             ELSE ParseFail
    ELSE IF bs[1] \in {10 + i : i \in 1..Len(ElemNames)}
    THEN LET inner == ParseList(Tail(bs))
         IN  IF ~inner.ok \/ Len(inner.rest) = 0 THEN ParseFail
             ELSE IF inner.rest[1] # bs[1] + 10 THEN ParseFail
             ELSE LET r == ParseList(Tail(inner.rest))
                  IN  IF r.ok
                      THEN [ok |-> TRUE,
                            nodes |-> << Elem(ElemNames[bs[1] - 10],
                                              inner.nodes) >> \o r.nodes,
                            rest |-> r.rest]
                      ELSE ParseFail
    ELSE IF bs[1] \in {20 + i : i \in 1..Len(ElemNames)}
    THEN [ok |-> TRUE, nodes |-> <<>>, rest |-> bs]
    ELSE ParseFail

\* the buffer parsed as the content of a wrapper element
ParseFragment(bs) ==
    LET r == ParseList(bs)
    IN  IF r.ok /\ Len(r.rest) = 0 THEN [ok |-> TRUE, nodes |-> r.nodes]
        ELSE [ok |-> FALSE, nodes |-> <<>>]

RECURSIVE HasEnc(_)
\* does the node list hold the EncryptedData element somewhere
HasEnc(ns) ==
    \E i \in 1..Len(ns) : ns[i].tag = "enc" \/ HasEnc(ns[i].kids)

RECURSIVE SpliceEnc(_, _)
\* the node list with the EncryptedData element replaced by the nodes repl
SpliceEnc(ns, repl) ==
    LET S[i \in 0..Len(ns)] ==
            IF i = 0 THEN <<>>
            ELSE IF ns[i].tag = "enc" THEN S[i - 1] \o repl
            ELSE S[i - 1] \o << [ns[i] EXCEPT
                                   !.kids = SpliceEnc(ns[i].kids, repl)] >>
    IN  S[Len(ns)]

(***************************************************************************)
(* The template: an EncryptedData / EncryptedKey element.                  *)
(*   attrs       the attributes Id, Type, MimeType, Encoding, Recipient    *)
(*   kids        the names of its child nodes, in document order           *)
(*   alg         the Algorithm of its EncryptionMethod child               *)
(*   cd          the names of the child nodes of its CipherData child      *)
(*   cv          the text content of CipherValue (base64 symbols)          *)
(*   cr          the CipherReference: URI attribute, child names and the   *)
(*               algorithms listed under Transforms                        *)
(*   ki          what the key-info writer has put under KeyInfo            *)
(***************************************************************************)
TypeEncElement == "http://www.w3.org/2001/04/xmlenc#Element"
TypeEncContent == "http://www.w3.org/2001/04/xmlenc#Content"

\* xmlSecGetNextElementNode: the first element node at or after position i
\* (Len + 1 stands for NULL)
NextElement(kids, i) ==
    IF \E j \in i..Len(kids) : kids[j] # "#text"
    THEN CHOOSE j \in i..Len(kids) :
             kids[j] # "#text" /\ \A k \in i..(j - 1) : kids[k] = "#text"
    ELSE Len(kids) + 1

\* xmlSecCheckNodeName(cur, name, ns) for a possibly NULL cur
IsNode(kids, cur, name) == cur <= Len(kids) /\ kids[cur] = name

(***************************************************************************)
(* The encryption context (xmlSecEncCtx) and the transform objects.        *)
(* Transform objects live in the heap, a sequence indexed by object id;    *)
(* pointers to transforms are ids, 0 is NULL.                              *)
(***************************************************************************)
NewTransform(klass, owner) ==
    [klass |-> klass, encode |-> FALSE, key |-> None, owner |-> owner]

\* the context right after xmlSecEncCtxInitialize (memset to zero)
ZeroCtx ==
    [mode |-> "EncryptedData", encrypt |-> FALSE,
     id |-> NULLSTR, type |-> NULLSTR, mimeType |-> NULLSTR,
     encoding |-> NULLSTR, recipient |-> NULLSTR,
     carriedKeyName |-> NULLSTR,
     encMethodNode |-> 0, keyInfoNode |-> 0, cipherValueNode |-> 0,
     encMethod |-> 0, dontDestroyEncMethod |-> FALSE,
     encKey |-> None, keyReq |-> "any",
     chain |-> <<>>, uri |-> NULLSTR, result |-> None,
     encResult |-> None, replaced |-> FALSE,
     resultBase64Encoded |-> FALSE]

Ev(name, arg) == [ev |-> name, arg |-> arg]

\* the running state of one operation: context, heap, template, the
\* template's own document, the host document, the first error reported by
\* xmlenc.c ("" while none), the collaborator calls made so far, whether
\* the process has crashed, and the reader's position among the children
Run0(c, heap, t, tdoc, hdoc) ==
    [c |-> c, heap |-> heap, t |-> t, tdoc |-> tdoc, hdoc |-> hdoc,
     err |-> "", note |-> "", tr |-> <<>>, crash |-> FALSE, cur |-> 0]
Fail(s, kind) == [s EXCEPT !.err = kind]
\* an error reported with an annotation (the message of xmlSecError)
FailNote(s, kind, note) == [s EXCEPT !.err = kind, !.note = note]
Log(s, name, arg) == [s EXCEPT !.tr = Append(@, Ev(name, arg))]
Running(s) == s.err = "" /\ ~s.crash

\* xmlSecTransformCtxCreateAndAppend / xmlSecTransformCtxAppend of a new
\* object of the given klass; yields the state after it
CreateAndAppend(s, klass) ==
    LET id == Len(s.heap) + 1
    IN  [Log(s, "append", id) EXCEPT
            !.heap = Append(@, NewTransform(klass, "ctx")),
            !.c.chain = Append(@, id)]

CreateAndPrepend(s, klass) ==
    LET id == Len(s.heap) + 1
    IN  [Log(s, "prepend", id) EXCEPT
            !.heap = Append(@, NewTransform(klass, "ctx")),
            !.c.chain = << id >> \o @]

\* the algorithms the transform registry knows, by usage
CipherAlgs == {"aes"}
DSigAlgs == {"base64"}
\* the resources URIs resolve to: a plaintext, and a ciphertext under KeyAes
UriResource(uri) ==
    IF uri = "plain" THEN << 31, 255 >>
    ELSE CipherApply(TRUE, KeyAes, << 31 >>).out

\* xmlSecTransformCtxSetUri: a URI the policy refuses fails, any other
\* installs the source transform at the head of the chain
SetUri(s, uri) ==
    IF uri = "bad" THEN Fail(Log(s, "setUri", 0), "XMLSEC_FAILED")
    ELSE [CreateAndPrepend(Log(s, "setUri", 1), "uri") EXCEPT !.c.uri = uri]

(***************************************************************************)
(* xmlSecEncCtxCipherReferenceNodeRead.  Every step of a function leaves   *)
(* a state that has already failed as it is (the function has returned).   *)
(***************************************************************************)
RECURSIVE NodesListRead(_, _)
\* xmlSecTransformCtxNodesListRead: instantiates and appends the listed
\* transforms in document order, failing on an algorithm it does not know
NodesListRead(s, algs) ==
    IF Len(algs) = 0 THEN s
    ELSE IF Head(algs) \notin DSigAlgs THEN Fail(s, "XMLSEC_FAILED")
    ELSE NodesListRead(CreateAndAppend(s, Head(algs)), Tail(algs))

\* first read the optional uri attr
CipherReferenceUri(s) ==
    IF s.t.cr.uri # NULLSTR THEN SetUri(s, s.t.cr.uri) ELSE s

\* the only one node is optional Transforms node
CipherReferenceTransforms(s) ==
    IF ~Running(s) THEN s
    ELSE IF IsNode(s.t.cr.kids, NextElement(s.t.cr.kids, 1), "Transforms")
    THEN NodesListRead(Log(s, "nodesListRead", 0), s.t.cr.transforms)
    ELSE s

\* cur after the optional Transforms node
CipherReferenceRest(kids) ==
    LET cur == NextElement(kids, 1)
    IN  IF IsNode(kids, cur, "Transforms") THEN NextElement(kids, cur + 1)
        ELSE cur

\* if there is something left than it's an error
CipherReferenceLeftover(s) ==
    IF ~Running(s) THEN s
    ELSE IF CipherReferenceRest(s.t.cr.kids) <= Len(s.t.cr.kids)
    THEN Fail(s, "UNEXPECTED_NODE")
    ELSE s

CipherReferenceNodeRead(s) ==
    CipherReferenceLeftover(CipherReferenceTransforms(CipherReferenceUri(s)))

(***************************************************************************)
(* xmlSecEncCtxCipherDataNodeRead.                                         *)
(***************************************************************************)
\* variant: no base64 decoder is put before a CipherValue that is decrypted
CipherDataFirstNoDecoder(s) ==
    LET cur == NextElement(s.t.cd, 1)
    IN  IF IsNode(s.t.cd, cur, "CipherValue")
        THEN [s EXCEPT !.c.cipherValueNode = cur]
        ELSE IF IsNode(s.t.cd, cur, "CipherReference") /\ ~s.c.encrypt
        THEN CipherReferenceNodeRead(s)
        ELSE s

\* the first child: CipherValue, CipherReference or something else
CipherDataFirst(s) ==
    LET cur == NextElement(s.t.cd, 1)
    IN  IF IsNode(s.t.cd, cur, "CipherValue")
        THEN \* for decryption a base64 decoder goes first in the chain
             [(IF ~s.c.encrypt THEN CreateAndPrepend(s, "base64") ELSE s)
                 EXCEPT !.c.cipherValueNode = cur]
        ELSE IF IsNode(s.t.cd, cur, "CipherReference") /\ ~s.c.encrypt
        \* don't need data from CipherData node when we are encrypting
        THEN CipherReferenceNodeRead(s)
        ELSE s

\* cur after the CipherValue or CipherReference node
CipherDataRest(cd) ==
    LET cur == NextElement(cd, 1)
    IN  IF IsNode(cd, cur, "CipherValue") \/ IsNode(cd, cur, "CipherReference")
        THEN NextElement(cd, cur + 1)
        ELSE cur

CipherDataLeftover(s) ==
    IF ~Running(s) THEN s
    ELSE IF CipherDataRest(s.t.cd) <= Len(s.t.cd) THEN Fail(s, "INVALID_NODE")
    ELSE s

CipherDataNodeRead(s) ==
    IF ~Running(s) THEN s
    \* we either have CipherValue or CipherReference node
    ELSE IF s.c.cipherValueNode # 0 THEN Fail(s, "ASSERT")
    ELSE CipherDataLeftover(CipherDataFirst(s))

(***************************************************************************)
(* xmlSecEncCtxEncDataNodeRead, in the order of its code.  The field cur   *)
(* of the running state is its local variable cur.                         *)
(***************************************************************************)
\* first read node data
ReadAttrs(s) ==
    IF ~Running(s) THEN s
    ELSE IF \/ s.c.id # NULLSTR \/ s.c.type # NULLSTR
            \/ s.c.mimeType # NULLSTR \/ s.c.encoding # NULLSTR
            \/ s.c.recipient # NULLSTR \/ s.c.carriedKeyName # NULLSTR
    THEN Fail(s, "ASSERT")
    ELSE [s EXCEPT
            !.c.id = s.t.attrs.Id,
            !.c.type = s.t.attrs.Type,
            !.c.mimeType = s.t.attrs.MimeType,
            !.c.encoding = s.t.attrs.Encoding,
            !.c.recipient = IF s.c.mode = "EncryptedKey"
                            THEN s.t.attrs.Recipient ELSE @,
            !.cur = NextElement(s.t.kids, 1)]

\* cur = xmlSecGetNextElementNode(cur->next)
Advance(s) ==
    IF ~Running(s) THEN s
    ELSE [s EXCEPT !.cur = NextElement(s.t.kids, s.cur + 1)]

\* first node is optional EncryptionMethod, we'll read it later
ReadEncMethodNode(s) ==
    IF ~Running(s) THEN s
    ELSE IF s.c.encMethodNode # 0 THEN Fail(s, "ASSERT")
    ELSE IF IsNode(s.t.kids, s.cur, "EncryptionMethod")
    THEN Advance([s EXCEPT !.c.encMethodNode = s.cur])
    ELSE s

\* next node is optional KeyInfo, we'll process it later
ReadKeyInfoNode(s) ==
    IF ~Running(s) THEN s
    ELSE IF s.c.keyInfoNode # 0 THEN Fail(s, "ASSERT")
    ELSE IF IsNode(s.t.kids, s.cur, "KeyInfo")
    THEN Advance([s EXCEPT !.c.keyInfoNode = s.cur])
    ELSE s

\* variant: whatever comes next is taken for the CipherData node
CipherDataAssumed(kids, cur) == FALSE

\* (cur == NULL) || !xmlSecCheckNodeName(cur, xmlSecNodeCipherData, ...)
MissingCipherData(kids, cur) == ~IsNode(kids, cur, "CipherData")

\* next is required CipherData node
RequireCipherData(s) ==
    IF ~Running(s) THEN s
    ELSE IF MissingCipherData(s.t.kids, s.cur)
    THEN FailNote(s, "INVALID_NODE", "node=CipherData")
    ELSE s

\* an optional node that is simply ignored
SkipNode(s, name) ==
    IF ~Running(s) THEN s
    ELSE IF IsNode(s.t.kids, s.cur, name) THEN Advance(s)
    ELSE s

\* next is optional CarriedKeyName node
ReadCarriedKeyName(s) ==
    IF ~Running(s) THEN s
    ELSE IF IsNode(s.t.kids, s.cur, "CarriedKeyName")
    THEN IF s.t.ckn = NULLSTR
         THEN FailNote(s, "INVALID_NODE_CONTENT", "node=CipherData")
         ELSE Advance([s EXCEPT !.c.carriedKeyName = s.t.ckn])
    ELSE s

\* there are more possible nodes for the <EncryptedKey> node
ReadKeyTail(s) ==
    IF ~Running(s) \/ s.c.mode # "EncryptedKey" THEN s
    ELSE ReadCarriedKeyName(SkipNode(s, "ReferenceList"))

\* variant: what is left after the known children is ignored
LeftoverIgnored(s) == s

\* if there is something left than it's an error
Leftover(s) ==
    IF ~Running(s) THEN s
    ELSE IF s.cur <= Len(s.t.kids) THEN Fail(s, "UNEXPECTED_NODE")
    ELSE s

ReadChildren(s) ==
    Leftover(ReadKeyTail(SkipNode(
        Advance(CipherDataNodeRead(RequireCipherData(
            ReadKeyInfoNode(ReadEncMethodNode(s))))),
        "EncryptionProperties")))

\* xmlSecTransformCtxNodeRead(ctx, encMethodNode, EncryptionMethod usage):
\* instantiates the cipher named by the node and appends it to the chain;
\* encMethod stays NULL when the registry does not know the algorithm
TransformCtxNodeRead(s) ==
    IF s.t.alg \in CipherAlgs
    THEN [CreateAndAppend(Log(s, "nodeRead", s.c.encMethodNode), s.t.alg)
             EXCEPT !.c.encMethod = Len(s.heap) + 1]
    ELSE Log(s, "nodeRead", s.c.encMethodNode)

NodeReadCheck(s) ==
    IF s.c.encMethod = 0 THEN Fail(s, "XMLSEC_FAILED") ELSE s

\* variant: the EncryptionMethod node of the template is preferred to the
\* method the context already holds
SelectEncMethodNodeFirst(s) ==
    IF ~Running(s) THEN s
    ELSE IF s.c.encMethodNode # 0
    THEN NodeReadCheck(TransformCtxNodeRead(s))
    ELSE IF s.c.encMethod # 0
    THEN [Log(s, "append", s.c.encMethod) EXCEPT
             !.c.chain = Append(@, s.c.encMethod),
             !.c.dontDestroyEncMethod = TRUE]
    ELSE FailNote(s, "INVALID_DATA", "encryption method not specified")

\* now read the encryption method node
SelectEncMethod(s) ==
    IF ~Running(s) THEN s
    ELSE IF s.c.encMethod = 0 /\ s.c.encMethodNode # 0
    THEN NodeReadCheck(TransformCtxNodeRead(s))
    ELSE IF s.c.encMethod # 0
    THEN [Log(s, "append", s.c.encMethod) EXCEPT
             !.c.chain = Append(@, s.c.encMethod),
             !.c.dontDestroyEncMethod = TRUE]
    ELSE FailNote(s, "INVALID_DATA", "encryption method not specified")

\* variant: the method is put in encode mode whatever the operation
SetEncodeAlways(s) ==
    IF ~Running(s) THEN s
    ELSE [s EXCEPT !.heap[s.c.encMethod].encode = TRUE]

\* ctx->encMethod->encode = ctx->encrypt
SetEncode(s) ==
    IF ~Running(s) THEN s
    ELSE [s EXCEPT !.heap[s.c.encMethod].encode = s.c.encrypt]

ReadEncMethod(s) == SetEncode(SelectEncMethod(s))

\* the key requirement the cipher klass states in setKeyReq
KeyReqOf(klass) == IF klass \in CipherAlgs THEN klass ELSE "any"

\* we have encryption method, find key
SetKeyReq(s) ==
    IF ~Running(s) THEN s
    ELSE [Log(s, "setKeyReq", s.c.encMethod) EXCEPT
             !.c.keyReq = KeyReqOf(s.heap[s.c.encMethod].klass)]

\* variant: the key manager is asked even when the context holds a key
LookupKeyAlways(s, mgr) ==
    IF ~Running(s) THEN s
    ELSE IF s.c.keyInfoNode # 0
    THEN IF ~mgr.present THEN [s EXCEPT !.crash = TRUE]
         ELSE IF mgr.hook
         THEN [Log(s, "getKey", s.c.keyInfoNode) EXCEPT !.c.encKey = mgr.key]
         ELSE s
    ELSE s

\* keysMngr->getKey is read through the manager pointer, which nothing
\* checks
LookupKey(s, mgr) ==
    IF ~Running(s) THEN s
    ELSE IF IsNull(s.c.encKey) /\ s.c.keyInfoNode # 0
    THEN IF ~mgr.present THEN [s EXCEPT !.crash = TRUE]
         ELSE IF mgr.hook
         THEN [Log(s, "getKey", s.c.keyInfoNode) EXCEPT !.c.encKey = mgr.key]
         ELSE s
    ELSE s

\* variant: every key, and no key at all, is accepted
KeyRejectedNever(c) == FALSE

\* (encKey == NULL) || !xmlSecKeyMatch(encKey, NULL, keyReq)
KeyRejected(c) == IsNull(c.encKey) \/ ~KeyMatch(Val(c.encKey), c.keyReq)

\* check that we have exactly what we want, set the key to the transform
CheckKey(s) ==
    IF ~Running(s) THEN s
    ELSE IF KeyRejected(s.c) THEN Fail(s, "KEY_NOT_FOUND")
    ELSE [Log(s, "setKey", s.c.encMethod) EXCEPT
             !.heap[s.c.encMethod].key = s.c.encKey]

ResolveKey(s, mgr) == CheckKey(LookupKey(SetKeyReq(s), mgr))

\* variant: no base64 encoder is ever added
NoBase64(s) == s

\* if we need to write result to xml node then we need base64 encode it
AddBase64(s) ==
    IF ~Running(s) THEN s
    ELSE IF s.c.encrypt /\ s.c.cipherValueNode # 0
    THEN LET r == CreateAndAppend(s, "base64")
         IN  [r EXCEPT !.heap[Len(r.heap)].encode = TRUE,
                       !.c.resultBase64Encoded = TRUE]
    ELSE s

EncDataNodeRead(s, mgr) ==
    AddBase64(ResolveKey(ReadEncMethod(ReadChildren(ReadAttrs(s))), mgr))

(***************************************************************************)
(* Execution of the transform chain.                                       *)
(***************************************************************************)
\* what one stage makes of its complete input
StageApply(tf, data) ==
    IF tf.klass \in CipherAlgs
    THEN IF IsNull(tf.key) THEN [ok |-> FALSE, out |-> <<>>]
         ELSE CipherApply(tf.encode, Val(tf.key), data)
    ELSE IF tf.klass = "base64"
    THEN IF tf.encode THEN [ok |-> TRUE, out |-> Base64Encode(data)]
         ELSE Base64Decode(data)
    ELSE [ok |-> TRUE, out |-> data]

RECURSIVE RunStages(_, _, _, _)
\* the stages from position i on, head to tail, each fed the output of the
\* one before it
RunStages(heap, chain, i, data) ==
    IF i > Len(chain) THEN [ok |-> TRUE, out |-> data]
    ELSE LET r == StageApply(heap[chain[i]], data)
         IN  IF r.ok THEN RunStages(heap, chain, i + 1, r.out)
             ELSE [ok |-> FALSE, out |-> <<>>]

HasSource(s) ==
    \E i \in 1..Len(s.c.chain) : s.heap[s.c.chain[i]].klass = "uri"

\* xmlSecTransformCtxPrepare: the chain is materialized once and the result
\* buffer attached
Prepare(s) ==
    IF ~Running(s) THEN s
    ELSE IF ~IsNull(s.c.result) \/ Len(s.c.chain) = 0
    THEN Fail(Log(s, "prepare", 0), "XMLSEC_FAILED")
    ELSE [Log(s, "prepare", 1) EXCEPT !.c.result = Some(<<>>)]

\* end of input has reached the head of the chain after the octets data:
\* the result buffer holds what the last stage wrote, if every stage did
Flush(s, data) ==
    LET r == RunStages(s.heap, s.c.chain, 1, data)
    IN  IF r.ok /\ ~HasSource(s) THEN [s EXCEPT !.c.result = Some(r.out)]
        ELSE Fail(s, "XMLSEC_FAILED")

\* the octets pushed into the first transform followed by end of input
PushAndClose(s, data) ==
    IF ~Running(s) THEN s
    ELSE Flush(Log(Log(s, "pushBin", Len(data)), "eof", 0), data)

\* xmlSecTransformCtxBinaryExecute(ctx, data, dataSize)
BinaryExecute(s, data) == PushAndClose(Prepare(s), data)

\* the URI's resource pulled through the chain
Pull(s) ==
    IF ~Running(s) THEN s
    ELSE IF s.c.uri = NULLSTR THEN Fail(Log(s, "execute", 0), "XMLSEC_FAILED")
    ELSE LET r == RunStages(s.heap, s.c.chain, 1, UriResource(s.c.uri))
         IN  IF r.ok THEN [Log(s, "execute", 0) EXCEPT
                              !.c.result = Some(r.out)]
             ELSE Fail(Log(s, "execute", 0), "XMLSEC_FAILED")

\* xmlSecTransformCtxExecute(ctx, doc)
TransformCtxExecute(s) == Pull(Prepare(s))

(***************************************************************************)
(* xmlSecEncCtxCipherDataNodeWrite.  fault names the collaborator call     *)
(* that fails in this operation ("none", "keyInfoWrite" or "replace").     *)
(***************************************************************************)
\* write encrypted data to xml (if requested)
CipherValueWrite(s) ==
    IF s.c.cipherValueNode # 0
    THEN [Log(s, "setContent", Len(Val(s.c.encResult))) EXCEPT
             !.t.cv = Val(s.c.encResult),
             !.c.replaced = TRUE]
    ELSE s

\* update <dsig:KeyInfo/> node
KeyInfoWrite(s, fault) ==
    IF s.c.keyInfoNode # 0
    THEN IF fault = "keyInfoWrite"
         THEN Fail(Log(s, "keyInfoWrite", 0), "XMLSEC_FAILED")
         ELSE [Log(s, "keyInfoWrite", 1) EXCEPT !.t.ki = s.c.encKey]
    ELSE s

\* variant: the KeyInfo is written before the CipherValue
CipherDataNodeWriteKeyFirst(s, fault) ==
    IF ~Running(s) THEN s
    ELSE IF IsNull(s.c.encResult) \/ IsNull(s.c.encKey) THEN Fail(s, "ASSERT")
    ELSE IF s.c.cipherValueNode # 0 /\ Len(Val(s.c.encResult)) = 0
    THEN Fail(s, "ASSERT")
    ELSE CipherValueWrite(KeyInfoWrite(s, fault))

CipherDataNodeWrite(s, fault) ==
    IF ~Running(s) THEN s
    ELSE IF IsNull(s.c.encResult) \/ IsNull(s.c.encKey) THEN Fail(s, "ASSERT")
    \* xmlSecBufferGetData of an empty buffer is NULL
    ELSE IF s.c.cipherValueNode # 0 /\ Len(Val(s.c.encResult)) = 0
    THEN Fail(s, "ASSERT")
    ELSE KeyInfoWrite(CipherValueWrite(s), fault)

\* variant: encResult is set to the result buffer of the chain even when
\* the execution has failed
AliasResultAlways(s) ==
    IF s.crash THEN s ELSE [s EXCEPT !.c.encResult = s.c.result]

\* ctx->encResult = ctx->encTransformCtx.result, then the assertion on it
AliasResult(s) ==
    IF ~Running(s) THEN s
    ELSE IF IsNull(s.c.result) THEN Fail(s, "ASSERT")
    ELSE [s EXCEPT !.c.encResult = s.c.result]

(***************************************************************************)
(* The top-level operations.  Each yields the state the operation leaves;  *)
(* it has failed (returned -1 or NULL) exactly when err is not "".         *)
(***************************************************************************)
\* variant: the operations do not look at encResult on entry
EncResultUnchecked(s) == TRUE

\* xmlSecAssert2(ctx->encResult == NULL, -1)
EncResultIsNull(s) == IsNull(s.c.encResult)

\* initialize context and add ID atributes to the list of known ids
SetEncrypt(s, flag) == Log([s EXCEPT !.c.encrypt = flag], "addIDs", 0)

\* xmlSecEncCtxBinaryEncrypt(ctx, tmpl, data, dataSize)
BinaryEncrypt(s, data, mgr, fault) ==
    IF ~EncResultIsNull(s) THEN Fail(s, "ASSERT")
    ELSE CipherDataNodeWrite(
             AliasResult(BinaryExecute(
                 EncDataNodeRead(SetEncrypt(s, TRUE), mgr), data)),
             fault)

\* variant: every Type, and none, passes for the Type asked about
AnyType(s, type) == TRUE

\* (ctx->type != NULL) && xmlStrEqual(ctx->type, type)
IsType(s, type) == s.c.type # NULLSTR /\ s.c.type = type

CreateOutputBuffer(s) ==
    IF ~Running(s) THEN s ELSE Log(s, "createOutputBuffer", 0)

\* xmlOutputBufferClose: end of input reaches the chain after the octets
\* written to the buffer
CloseOutput(s, data) ==
    LET r == RunStages(s.heap, s.c.chain, 1, data)
    IN  IF r.ok /\ ~HasSource(s)
        THEN [Log(s, "eof", 0) EXCEPT !.c.result = Some(r.out)]
        ELSE Log(s, "eof", 0)

\* the node, or its children, dumped into the output buffer
DumpInto(s, data) ==
    CloseOutput(Log(Log(s, "dump", Len(data)), "pushBin", Len(data)), data)

\* variant: an unknown Type is turned down without closing the output
\* buffer
PushThruNoClose(s, node) ==
    IF ~Running(s) THEN s
    ELSE IF IsType(s, TypeEncElement) THEN DumpInto(s, DumpNode(node))
    ELSE IF IsType(s, TypeEncContent) THEN DumpInto(s, DumpNodes(node.kids))
    ELSE Fail(s, "INVALID_TYPE")

\* push data thru, close the buffer and flush everything
PushThru(s, node) ==
    IF ~Running(s) THEN s
    ELSE IF IsType(s, TypeEncElement) THEN DumpInto(s, DumpNode(node))
    ELSE IF IsType(s, TypeEncContent) THEN DumpInto(s, DumpNodes(node.kids))
    ELSE Fail(CloseOutput(s, <<>>), "INVALID_TYPE")

\* variant: the template is put into the host document even when the
\* operation has already failed
XmlEncryptSpliceAlways(s, pos, fault) ==
    IF s.crash \/ HasEnc(s.hdoc) THEN s
    ELSE [Log(s, "replaceNode", 1) EXCEPT !.hdoc[pos] = EncNode,
                                          !.tdoc = <<>>]

\* the last part of xmlSecEncCtxXmlEncrypt: now we need to update our
\* original document
XmlEncryptSplice(s, pos, fault) ==
    IF ~Running(s) THEN s
    ELSE IF IsType(s, TypeEncElement)
    THEN IF fault = "replace"
         THEN Fail(Log(s, "replaceNode", 0), "XMLSEC_FAILED")
         ELSE [Log(s, "replaceNode", 1) EXCEPT
                  !.hdoc[pos] = EncNode,
                  !.tdoc = <<>>,
                  !.c.replaced = TRUE]
    ELSE IF s.c.type = TypeEncContent
    THEN IF fault = "replace"
         THEN Fail(Log(s, "replaceContent", 0), "XMLSEC_FAILED")
         ELSE [Log(s, "replaceContent", 1) EXCEPT
                  !.hdoc[pos].kids = << EncNode >>,
                  !.tdoc = <<>>,
                  !.c.replaced = TRUE]
    \* we should've catached this error before
    ELSE Fail(s, "INVALID_TYPE")

\* variant: the template is put into the host document before the cipher
\* data is written into it
XmlEncryptSpliceFirst(s, pos, mgr, fault) ==
    IF ~EncResultIsNull(s) THEN Fail(s, "ASSERT")
    ELSE CipherDataNodeWrite(
             XmlEncryptSplice(
                 AliasResult(PushThru(
                     CreateOutputBuffer(Prepare(
                         EncDataNodeRead(SetEncrypt(s, TRUE), mgr))),
                     s.hdoc[pos])),
                 pos, fault),
             fault)

\* xmlSecEncCtxXmlEncrypt(ctx, tmpl, node), node being hdoc[pos]
XmlEncrypt(s, pos, mgr, fault) ==
    IF ~EncResultIsNull(s) THEN Fail(s, "ASSERT")
    ELSE XmlEncryptSplice(
             CipherDataNodeWrite(
                 AliasResult(PushThru(
                     CreateOutputBuffer(Prepare(
                         EncDataNodeRead(SetEncrypt(s, TRUE), mgr))),
                     s.hdoc[pos])),
                 fault),
             pos, fault)

\* variant: the template is read before the input uri transform is added
UriEncryptReadFirst(s, uri, mgr, fault) ==
    IF ~EncResultIsNull(s) THEN Fail(s, "ASSERT")
    ELSE CipherDataNodeWrite(
             AliasResult(TransformCtxExecute(
                 SetUri(EncDataNodeRead(SetEncrypt(s, TRUE), mgr), uri))),
             fault)

\* xmlSecEncCtxUriEncrypt(ctx, tmpl, uri)
UriEncrypt(s, uri, mgr, fault) ==
    IF ~EncResultIsNull(s) THEN Fail(s, "ASSERT")
    ELSE CipherDataNodeWrite(
             AliasResult(TransformCtxExecute(
                 \* we need to add input uri transform first
                 EncDataNodeRead(SetUri(SetEncrypt(s, TRUE), uri), mgr))),
             fault)

\* decrypt the data
DecryptExecute(s) ==
    IF ~Running(s) THEN s
    ELSE IF s.c.cipherValueNode # 0
    THEN BinaryExecute(Log(s, "getContent", Len(s.t.cv)), s.t.cv)
    ELSE TransformCtxExecute(s)

\* xmlSecEncCtxDecryptToBuffer(ctx, node)
DecryptToBuffer(s, mgr) ==
    IF ~EncResultIsNull(s) THEN Fail(s, "ASSERT")
    ELSE AliasResult(DecryptExecute(
             EncDataNodeRead(SetEncrypt(s, FALSE), mgr)))

\* xmlSecReplaceNodeBuffer(node, data, size): the buffer is parsed and the
\* nodes it holds take the place of the EncryptedData element
ReplaceNodeBuffer(s, fault) ==
    LET p == ParseFragment(Val(s.c.encResult))
    IN  IF fault = "replace" \/ ~p.ok
        THEN Fail(Log(s, "replaceNodeBuffer", 0), "XMLSEC_FAILED")
        ELSE [Log(s, "replaceNodeBuffer", 1) EXCEPT
                 !.hdoc = SpliceEnc(s.hdoc, p.nodes),
                 !.tdoc = SpliceEnc(s.tdoc, p.nodes),
                 !.c.replaced = TRUE]

\* variant: the buffer is put into the document whatever the Type
DecryptReplaceAlways(s, fault) ==
    IF ~Running(s) THEN s ELSE ReplaceNodeBuffer(s, fault)

\* replace original node if requested
DecryptReplace(s, fault) ==
    IF ~Running(s) THEN s
    ELSE IF IsType(s, TypeEncElement) THEN ReplaceNodeBuffer(s, fault)
    ELSE IF IsType(s, TypeEncContent) THEN ReplaceNodeBuffer(s, fault)
    ELSE s

\* variant: the decrypted buffer is never put into the document
DecryptKeepNode(s, mgr, fault) == DecryptToBuffer(s, mgr)

\* xmlSecEncCtxDecrypt(ctx, node)
Decrypt(s, mgr, fault) == DecryptReplace(DecryptToBuffer(s, mgr), fault)

(***************************************************************************)
(* xmlSecEncCtxFinalize: the releases it makes, in order.                  *)
(***************************************************************************)
\* xmlSecTransformCtxFinalize destroys every transform of the chain
ChainFinalize(chain) == [i \in 1..Len(chain) |-> Ev("destroyTransform", chain[i])]

FreeIf(str, name) == IF str # NULLSTR THEN << Ev(name, 0) >> ELSE <<>>

FinalizeTrace(c) ==
    ChainFinalize(c.chain)
    \o << Ev("keyInfoCtxFinalize", 1), Ev("keyInfoCtxFinalize", 2) >>
    \o (IF c.dontDestroyEncMethod /\ c.encMethod # 0
        THEN << Ev("destroyTransform", c.encMethod) >> ELSE <<>>)
    \o (IF ~IsNull(c.encKey) THEN << Ev("destroyKey", 0) >> ELSE <<>>)
    \o FreeIf(c.id, "free id") \o FreeIf(c.type, "free type")
    \o FreeIf(c.mimeType, "free mimeType")
    \o FreeIf(c.encoding, "free encoding")
    \o FreeIf(c.recipient, "free recipient")
    \o FreeIf(c.carriedKeyName, "free carriedKeyName")

(***************************************************************************)
(* The XSLT transform (xslt.c).  A stage is the xmlSecTransform object     *)
(* with its xmlSecXsltCtx: status, inBuf, outBuf and the compiled          *)
(* stylesheet (xslt, NULL while there is none).                            *)
(*                                                                         *)
(* Documents are the octet codes of the DOM section.  A stylesheet is a    *)
(* document whose root is <stylesheet>; its body <copy/> copies the input  *)
(* document, an empty body writes the text of the input, and any other     *)
(* body makes the application of the stylesheet fail.                      *)
(***************************************************************************)
\* the stage after xmlSecTransformCreate and xmlSecXsltInitialize
NewStage == [status |-> "None", inBuf |-> <<>>, outBuf |-> <<>>,
             xslt |-> None]

\* the running state of one call on the stage x
XRun0(x) == [x |-> x, err |-> "", note |-> "", tr |-> <<>>, crash |-> FALSE]

\* xmlSecParseMemory: a document has exactly one root, an element
ParseMemory(bs) ==
    LET p == ParseFragment(bs)
    IN  IF p.ok /\ Len(p.nodes) = 1 /\ p.nodes[1].tag = "elem"
        THEN [ok |-> TRUE, doc |-> p.nodes[1]]
        ELSE [ok |-> FALSE, doc |-> Text("x")]

\* xsltParseStylesheetDoc
ParseStylesheetDoc(doc) ==
    IF doc.name = "stylesheet" THEN Some(doc.kids) ELSE None

RECURSIVE TextOf(_)
\* the text nodes of a subtree, in document order
TextOf(n) ==
    IF n.tag = "text" THEN << n >>
    ELSE LET T[i \in 0..Len(n.kids)] ==
                 IF i = 0 THEN <<>> ELSE T[i - 1] \o TextOf(n.kids[i])
         IN  T[Len(n.kids)]

\* xsltApplyStylesheet followed by xsltSaveResultTo: the octets of the
\* result document
ApplyStylesheet(sheet, doc) ==
    IF sheet = << Elem("copy", <<>>) >>
    THEN [ok |-> TRUE, out |-> DumpNode(doc)]
    ELSE IF sheet = <<>>
    THEN [ok |-> TRUE, out |-> DumpNodes(TextOf(doc))]
    ELSE [ok |-> FALSE, out |-> <<>>]

(***************************************************************************)
(* xmlSecXsltReadNode(transform, node); kids are the children of node.     *)
(***************************************************************************)
\* pre-process stylesheet
XsltCompile(r, doc) ==
    IF IsNull(ParseStylesheetDoc(doc))
    THEN Log(Log(Fail(Log(r, "xsltParseStylesheetDoc", 0), "XSLT_FAILED"),
                 "xmlFreeDoc", 0), "xmlBufferFree", 0)
    ELSE Log([Log(r, "xsltParseStylesheetDoc", 1) EXCEPT
                 !.x.xslt = ParseStylesheetDoc(doc)],
             "xmlBufferFree", 0)

\* variant: the buffer is not freed when its content does not parse
XsltParseLeak(r, buffer) ==
    IF ~ParseMemory(buffer).ok
    THEN Fail(Log(r, "xmlSecParseMemory", 0), "XMLSEC_FAILED")
    ELSE XsltCompile(Log(r, "xmlSecParseMemory", 1), ParseMemory(buffer).doc)

\* parse the buffer
XsltParse(r, buffer) ==
    IF ~ParseMemory(buffer).ok
    THEN Log(Fail(Log(r, "xmlSecParseMemory", 0), "XMLSEC_FAILED"),
             "xmlBufferFree", 0)
    ELSE XsltCompile(Log(r, "xmlSecParseMemory", 1), ParseMemory(buffer).doc)

XsltReadNode(r, kids) ==
    IF ~IsNull(r.x.xslt) THEN Fail(r, "ASSERT")
    \* read content in the buffer
    ELSE XsltParse(Log(Log(r, "xmlBufferCreate", 0),
                       "xmlNodeDump", Len(kids)),
                   DumpNodes(kids))

(***************************************************************************)
(* xmlSecXslProcess(in, out, stylesheet) and xmlSecXsltExecute.            *)
(***************************************************************************)
\* the output of the stylesheet for the input in, when there is one
XslOutput(in, sheet) ==
    IF ~ParseMemory(in).ok THEN [ok |-> FALSE, out |-> <<>>]
    ELSE ApplyStylesheet(sheet, ParseMemory(in).doc)

\* xmlSecXslProcess: the first error it reports, and out set at the end
XslProcess(r) ==
    IF ~ParseMemory(r.x.inBuf).ok
    THEN Fail(Log(r, "xmlSecParseMemory", 0), "XMLSEC_FAILED")
    ELSE IF ~XslOutput(r.x.inBuf, Val(r.x.xslt)).ok
    THEN Log(Fail(Log(Log(r, "xmlSecParseMemory", 1),
                      "xsltApplyStylesheet", 0), "XSLT_FAILED"),
             "xmlFreeDoc", 0)
    ELSE Log(Log([Log(Log(r, "xmlSecParseMemory", 1),
                      "xsltApplyStylesheet", 1) EXCEPT
                     !.x.outBuf = XslOutput(r.x.inBuf, Val(r.x.xslt)).out],
                 "xmlFreeDoc", 0), "xmlFreeDoc", 1)

\* variant: the stage finishes with its input left in inBuf
XsltFinishKeep(r, inSize) ==
    IF ~Running(r) THEN r ELSE [r EXCEPT !.x.status = "Finished"]

\* variant: the input is removed and the stage finished even when the
\* processing has failed
XsltFinishAlways(r, inSize) ==
    [r EXCEPT !.x.inBuf = SubSeq(@, inSize + 1, Len(@)),
              !.x.status = "Finished"]

\* xmlSecBufferRemoveHead(in, inSize) and the move to Finished
XsltFinish(r, inSize) ==
    IF ~Running(r) THEN r
    ELSE [r EXCEPT !.x.inBuf = SubSeq(@, inSize + 1, Len(@)),
                   !.x.status = "Finished"]

\* variant: the first call does not move the stage out of None
XsltBeginKeep(r) == r

\* variant: a finished stage is set to work again
XsltBeginAgain(r) ==
    IF r.x.status \in {"None", "Finished"}
    THEN [r EXCEPT !.x.status = "Working"] ELSE r

\* if(transform->status == xmlSecTransformStatusNone)
XsltBegin(r) ==
    IF r.x.status = "None" THEN [r EXCEPT !.x.status = "Working"] ELSE r

\* variant: a finished stage does not look at its input
InputNeverLeft(r) == FALSE

\* !(inSize == 0)
InputLeft(r) == Len(r.x.inBuf) # 0

\* the branches of xmlSecXsltExecute on status and last
XsltStep(r, lastFlag) ==
    IF r.x.status = "Working" /\ lastFlag = 0
    THEN \* just do nothing
         IF Len(r.x.outBuf) # 0 THEN Fail(r, "ASSERT") ELSE r
    ELSE IF r.x.status = "Working" /\ lastFlag # 0
    THEN IF Len(r.x.outBuf) # 0 THEN Fail(r, "ASSERT")
         ELSE XsltFinish(XslProcess(r), Len(r.x.inBuf))
    ELSE IF r.x.status = "Finished"
    THEN \* the only way we can get here is if there is no input
         IF InputLeft(r) THEN Fail(r, "ASSERT") ELSE r
    ELSE FailNote(r, "INVALID_STATUS", "status")

XsltExecute(r, lastFlag) ==
    IF IsNull(r.x.xslt) THEN Fail(r, "ASSERT")
    ELSE XsltStep(XsltBegin(r), lastFlag)

\* xmlSecXsltFinalize
XsltFinalize(r) ==
    IF ~IsNull(r.x.xslt)
    THEN [Log(r, "xsltFreeStylesheet", 0) EXCEPT !.x.xslt = None]
    ELSE r

(***************************************************************************)
(* The state machine.                                                      *)
(*   ctx, heap   the encryption context and the transform objects          *)
(*   tmpl        the template (the EncryptedData / EncryptedKey element)   *)
(*   tdoc        the template's own document (holds EncNode while the      *)
(*               template has not been moved or replaced)                  *)
(*   host        the host document: the children of its root element       *)
(*   mgr         the key manager handed to xmlSecEncCtxInitialize          *)
(*   phase       "live" between Initialize and Finalize, "finalized"       *)
(*               after Finalize, "crashed" after a NULL dereference        *)
(*   last        the last call: name, return value, first error reported,  *)
(*               its annotation and the collaborator calls it made         *)
(*   ops, lives  operations run so far; contexts created so far            *)
(*   prov        history: the encrypt operation that last wrote the        *)
(*               CipherValue, its key and its plaintext                    *)
(*   host0       history: the host document at the start                   *)
(*   stage       the XSLT transform object                                 *)
(*   xhist       history: the last flags of the execute calls made on the  *)
(*               stage, and the octets appended to its inBuf so far        *)
(***************************************************************************)
VARIABLES ctx, heap, tmpl, tdoc, host, mgr, phase, last, ops, lives, prov,
          host0, stage, xhist

vars == << ctx, heap, tmpl, tdoc, host, mgr, phase, last, ops, lives, prov,
           host0, stage, xhist >>

MkTemplate(type, id, kids, alg, cd, uri, crkids, trs) ==
    [attrs |-> [Id |-> id, Type |-> type, MimeType |-> NULLSTR,
                Encoding |-> NULLSTR, Recipient |-> NULLSTR],
     kids |-> kids, alg |-> alg, cd |-> cd, cv |-> <<>>,
     cr |-> [uri |-> uri, kids |-> crkids, transforms |-> trs],
     ki |-> None, ckn |-> "carried"]

\* the well-formed template
Standard(type) ==
    MkTemplate(type, NULLSTR, << "EncryptionMethod", "KeyInfo", "CipherData" >>,
               "aes", << "CipherValue" >>, NULLSTR, <<>>, <<>>)

CoreTemplates ==
    {Standard(type) : type \in {NULLSTR, TypeEncElement, TypeEncContent}}

\* templates whose children come in any order, and templates whose
\* <CipherData> holds something else than one <CipherValue>
ChildNames == {"EncryptionMethod", "KeyInfo", "CipherData",
               "EncryptionProperties", "ReferenceList"}
KidSeqs == UNION {[1..n -> ChildNames] : n \in 0..MaxKids}

WideTemplates ==
    {[Standard(NULLSTR) EXCEPT !.kids = k] : k \in KidSeqs}
    \cup {[Standard(TypeEncElement) EXCEPT !.kids = k] :
            k \in {<< "CipherData", "ReferenceList", "CarriedKeyName" >>,
                   << "CipherData", "CarriedKeyName", "ReferenceList" >>,
                   << "#text", "EncryptionMethod", "#text", "KeyInfo",
                      "CipherData", "#text" >>,
                   << "KeyInfo", "#text", "EncryptionMethod", "CipherData" >>,
                   << "EncryptionMethod", "KeyInfo", "CipherData",
                      "Other" >>}}
    \cup {[Standard("text/plain") EXCEPT !.attrs.Id = "ed1"],
          [Standard(NULLSTR) EXCEPT !.alg = "unknown"]}
    \cup {[Standard(NULLSTR) EXCEPT !.cd = cd] :
            cd \in {<<>>, << "CipherValue", "Other" >>, << "Other" >>,
                   << "#text", "CipherValue", "#text" >>}}
    \cup {[Standard(NULLSTR) EXCEPT !.cd = << "CipherReference" >>,
                                    !.cr = cr] :
            cr \in {[uri |-> "cipher", kids |-> <<>>, transforms |-> <<>>],
                    [uri |-> NULLSTR, kids |-> << "Transforms" >>,
                     transforms |-> << "base64" >>],
                    [uri |-> "cipher", kids |-> << "Transforms" >>,
                     transforms |-> << "base64" >>],
                    [uri |-> "cipher", kids |-> << "Transforms", "Other" >>,
                     transforms |-> <<>>],
                    [uri |-> "bad", kids |-> <<>>, transforms |-> <<>>]}}

\* key managers: none at all, one without a getKey hook, and hooks that
\* find a matching key, a key of another type, or nothing
Managers ==
    {[present |-> FALSE, hook |-> FALSE, key |-> None],
     [present |-> TRUE, hook |-> FALSE, key |-> None],
     [present |-> TRUE, hook |-> TRUE, key |-> Some(KeyAes)],
     [present |-> TRUE, hook |-> TRUE, key |-> None]}

HostDoc ==
    << Elem("item", <<>>),
       Elem("secret", << Elem("item", << Text("x") >>), Text("42") >>) >>

\* the plaintexts handed to BinaryEncrypt
DataBytes == {31, 255}
DataSet == UNION {[1..n -> DataBytes] : n \in 0..MaxData}

NoCall == [op |-> "Initialize", ret |-> 0, err |-> "", note |-> "",
           tr |-> <<>>]
NoProv == [op |-> "none", key |-> None, data |-> <<>>, ok |-> FALSE]
NoHist == [calls |-> <<>>, fed |-> <<>>]

InitWith(templates, managers) ==
    /\ ctx = ZeroCtx
    /\ heap = <<>>
    /\ tmpl \in templates
    /\ tdoc = << EncNode >>
    /\ host = HostDoc
    /\ mgr \in managers
    /\ phase = "live"
    /\ last = NoCall
    /\ ops = 0
    /\ lives = 1
    /\ prov = NoProv
    /\ host0 = HostDoc
    /\ stage = NewStage
    /\ xhist = NoHist

Init == InitWith(CoreTemplates, Managers)

\* the caller sets fields of the context it has just initialized: the mode,
\* an encryption method of its own, a key
Preset(mode, method, key) ==
    /\ phase = "live"
    /\ last.op = "Initialize"
    /\ ops < MaxOps
    /\ mode # ctx.mode \/ method \/ ~IsNull(key)
    /\ heap' = IF method THEN Append(heap, NewTransform("aes", "caller"))
               ELSE heap
    /\ ctx' = [ctx EXCEPT
                 !.mode = mode,
                 !.encMethod = IF method THEN Len(heap) + 1 ELSE @,
                 !.encKey = IF IsNull(key) THEN @ ELSE key]
    /\ last' = [NoCall EXCEPT !.op = "Preset"]
    /\ UNCHANGED << tmpl, tdoc, host, mgr, phase, ops, lives, prov, host0,
                    stage, xhist >>

\* the state an operation starts from
Start == Run0(ctx, heap, tmpl, tdoc, host)
TemplateExists == HasEnc(tdoc) \/ HasEnc(host)

\* the operation named op has run and left the state s
Finish(op, s, newProv) ==
    /\ ctx' = s.c
    /\ heap' = s.heap
    /\ tmpl' = s.t
    /\ tdoc' = s.tdoc
    /\ host' = s.hdoc
    /\ phase' = IF s.crash THEN "crashed" ELSE "live"
    /\ last' = [op |-> op,
                ret |-> IF s.crash THEN -2 ELSE IF s.err = "" THEN 0 ELSE -1,
                err |-> s.err, note |-> s.note, tr |-> s.tr]
    /\ ops' = ops + 1
    /\ prov' = IF s.t.cv # tmpl.cv
                  \/ \E i \in 1..Len(s.tr) : s.tr[i].ev = "setContent"
               THEN [newProv EXCEPT !.key = s.c.encKey,
                                    !.ok = s.err = "" /\ ~s.crash]
               ELSE prov
    /\ UNCHANGED << mgr, lives, host0, stage, xhist >>

CanRun == phase = "live" /\ ops < MaxOps /\ TemplateExists

BinaryEncryptAct ==
    /\ CanRun
    /\ \E data \in DataSet, fault \in {"none", "keyInfoWrite"} :
          Finish("BinaryEncrypt", BinaryEncrypt(Start, data, mgr, fault),
                 [NoProv EXCEPT !.op = "BinaryEncrypt", !.data = data])

XmlEncryptAct ==
    /\ CanRun
    /\ tdoc = << EncNode >>
    /\ \E pos \in 1..Len(host), fault \in {"none", "keyInfoWrite", "replace"} :
          /\ host[pos].tag = "elem"
          /\ Finish("XmlEncrypt", XmlEncrypt(Start, pos, mgr, fault),
                    [NoProv EXCEPT !.op = "XmlEncrypt",
                                   !.data = DumpNode(host[pos])])

UriEncryptAct ==
    /\ CanRun
    /\ \E uri \in {"plain", "bad"}, fault \in {"none", "keyInfoWrite"} :
          Finish("UriEncrypt", UriEncrypt(Start, uri, mgr, fault),
                 [NoProv EXCEPT !.op = "UriEncrypt",
                                !.data = UriResource(uri)])

DecryptToBufferAct ==
    /\ CanRun
    /\ Finish("DecryptToBuffer", DecryptToBuffer(Start, mgr), prov)

DecryptAct ==
    /\ CanRun
    /\ \E fault \in {"none", "replace"} :
          Finish("Decrypt", Decrypt(Start, mgr, fault), prov)

\* xmlSecEncCtxFinalize (xmlSecEncCtxDestroy)
FinalizeAct ==
    /\ phase = "live"
    /\ phase' = "finalized"
    /\ last' = [op |-> "Finalize", ret |-> 0, err |-> "", note |-> "",
                tr |-> FinalizeTrace(ctx)]
    /\ ctx' = ZeroCtx
    /\ UNCHANGED << heap, tmpl, tdoc, host, mgr, ops, lives, prov, host0,
                    stage, xhist >>

\* xmlSecEncCtxInitialize (xmlSecEncCtxCreate) of the next context, with
\* the same key manager
InitializeAct ==
    /\ phase = "finalized"
    /\ lives < MaxLives
    /\ ops < MaxOps
    /\ phase' = "live"
    /\ ctx' = ZeroCtx
    /\ heap' = <<>>
    /\ last' = NoCall
    /\ lives' = lives + 1
    /\ UNCHANGED << tmpl, tdoc, host, mgr, ops, prov, host0, stage, xhist >>

\* the caller hands over an encryption method, a key, or both
PresetAct ==
    \E method \in BOOLEAN, key \in {None} \cup {Some(k) : k \in Keys} :
        Preset(ctx.mode, method, key)

\* the caller asks for an <EncryptedKey> context and sets nothing else
PresetModeAct == Preset("EncryptedKey", FALSE, None)

Next ==
    \/ PresetAct
    \/ BinaryEncryptAct
    \/ XmlEncryptAct
    \/ UriEncryptAct
    \/ DecryptToBufferAct
    \/ DecryptAct
    \/ FinalizeAct
    \/ InitializeAct

Spec == Init /\ [][Next]_vars

(***************************************************************************)
(* One context whose caller may hand over a method and a key, reading      *)
(* templates with and without <EncryptionMethod> and <KeyInfo>, one of     *)
(* them with a <CipherReference> as its only content.                      *)
(***************************************************************************)
SelectTemplates ==
    {[Standard(NULLSTR) EXCEPT !.kids = k] :
        k \in {<< "EncryptionMethod", "KeyInfo", "CipherData" >>,
               << "KeyInfo", "CipherData" >>,
               << "EncryptionMethod", "CipherData" >>,
               << "CipherData" >>}}
    \cup {[Standard(NULLSTR) EXCEPT
             !.kids = << "CipherData" >>,
             !.cd = << "CipherReference" >>,
             !.cr = [uri |-> "cipher", kids |-> <<>>, transforms |-> <<>>]]}

InitSelect == InitWith(SelectTemplates, Managers)

NextSelect ==
    \/ PresetAct
    \/ BinaryEncryptAct
    \/ XmlEncryptAct
    \/ UriEncryptAct
    \/ DecryptToBufferAct
    \/ DecryptAct

SpecSelect == InitSelect /\ [][NextSelect]_vars

(***************************************************************************)
(* One context reading the wide family of templates, with a key manager    *)
(* that finds a key or none.                                               *)
(***************************************************************************)
ReadManagers == {m \in Managers : m.present /\ m.hook}

InitRead == InitWith(WideTemplates, ReadManagers)

NextRead ==
    \/ PresetModeAct
    \/ BinaryEncryptAct
    \/ XmlEncryptAct
    \/ UriEncryptAct
    \/ DecryptToBufferAct
    \/ DecryptAct
    \/ FinalizeAct

SpecRead == InitRead /\ [][NextRead]_vars

(***************************************************************************)
(* One XSLT stage driven call by call: the stylesheet is read from the     *)
(* Transform node, octets are appended to inBuf (what pushBin does before  *)
(* it calls execute), execute is called with last = 0 or 1, and the next   *)
(* stage takes the octets of outBuf.                                       *)
(***************************************************************************)
\* the children of the Transform node: stylesheets that copy, that write
\* the text, that fail when applied; a document that is no stylesheet; and
\* content that is no document
StylesheetKids ==
    {<< Elem("stylesheet", << Elem("copy", <<>>) >>) >>,
     << Elem("stylesheet", <<>>) >>,
     << Elem("stylesheet", << Elem("item", <<>>) >>) >>,
     << Elem("item", <<>>) >>,
     << Text("x") >>}

\* the octets appended to inBuf, one at a time
XsltBytes == {OpenCode("item"), CloseCode("item"), TextCode("x")}

encVars == << ctx, heap, tmpl, tdoc, host, mgr, phase, lives, prov, host0 >>

InitXslt ==
    /\ InitWith({Standard(NULLSTR)}, {m \in Managers : ~m.present})

\* the call named op has left the state r
XsltDone(op, r) ==
    /\ stage' = r.x
    /\ last' = [op |-> op, ret |-> IF r.err = "" THEN 0 ELSE -1,
                err |-> r.err, note |-> r.note, tr |-> r.tr]
    /\ ops' = ops + 1
    /\ UNCHANGED encVars

XsltLive == phase = "live" /\ ops < MaxCalls

XsltReadNodeAct ==
    /\ XsltLive
    /\ \E kids \in StylesheetKids :
          XsltDone("XsltReadNode", XsltReadNode(XRun0(stage), kids))
    /\ UNCHANGED xhist

XsltExecuteAct ==
    /\ XsltLive
    /\ \E lastFlag \in {0, 1} :
          /\ XsltDone("XsltExecute", XsltExecute(XRun0(stage), lastFlag))
          /\ xhist' = [xhist EXCEPT !.calls = Append(@, lastFlag)]

\* xmlSecTransformDefaultPushBin: the octets are appended to inBuf
XsltPushAct ==
    /\ phase = "live"
    /\ Len(xhist.fed) < MaxIn
    /\ \E b \in XsltBytes :
          /\ stage' = [stage EXCEPT !.inBuf = Append(@, b)]
          /\ xhist' = [xhist EXCEPT !.fed = Append(@, b)]
    /\ last' = [NoCall EXCEPT !.op = "XsltPush"]
    /\ UNCHANGED << encVars, ops >>

\* the next stage takes what outBuf holds
XsltPopAct ==
    /\ phase = "live"
    /\ Len(stage.outBuf) > 0
    /\ stage' = [stage EXCEPT !.outBuf = <<>>]
    /\ last' = [NoCall EXCEPT !.op = "XsltPop"]
    /\ UNCHANGED << encVars, ops, xhist >>

XsltFinalizeAct ==
    /\ phase = "live"
    /\ phase' = "finalized"
    /\ stage' = XsltFinalize(XRun0(stage)).x
    /\ last' = [NoCall EXCEPT !.op = "XsltFinalize",
                              !.tr = XsltFinalize(XRun0(stage)).tr]
    /\ UNCHANGED << ctx, heap, tmpl, tdoc, host, mgr, lives, prov, host0,
                    ops, xhist >>

NextXslt ==
    \/ XsltReadNodeAct
    \/ XsltExecuteAct
    \/ XsltPushAct
    \/ XsltPopAct
    \/ XsltFinalizeAct

SpecXslt == InitXslt /\ [][NextXslt]_vars

(***************************************************************************)
(* Properties.                                                             *)
(***************************************************************************)
OpNames == {"BinaryEncrypt", "XmlEncrypt", "UriEncrypt", "DecryptToBuffer",
            "Decrypt"}
EncryptOps == {"BinaryEncrypt", "XmlEncrypt", "UriEncrypt"}
DecryptOps == {"DecryptToBuffer", "Decrypt"}

\* the call named name is among the collaborator calls tr
Called(tr, name) == \E i \in 1..Len(tr) : tr[i].ev = name

\* the stages of the chain of context c, head to tail
ChainOf(c, h) ==
    [i \in 1..Len(c.chain) |->
        [klass |-> h[c.chain[i]].klass, encode |-> h[c.chain[i]].encode]]

\* C1: a top-level operation started on a context whose encResult is not
\* null returns failure at once: it makes no collaborator call and leaves
\* the context (encrypt flag, attributes, chain, key), the transforms, the
\* template and both documents as they were.
SingleUse ==
    [][(ops' = ops + 1 /\ ~IsNull(ctx.encResult))
          => /\ last'.op \in OpNames
             /\ last'.ret = -1
             /\ last'.tr = <<>>
             /\ ctx' = ctx /\ heap' = heap
             /\ tmpl' = tmpl /\ tdoc' = tdoc /\ host' = host]_vars

\* an operation has been refused on a context that holds a result
SingleUseRefused ==
    /\ last.op \in OpNames /\ last.ret = -1 /\ last.tr = <<>>
    /\ ~IsNull(ctx.encResult)

\* C2: after BinaryEncrypt has succeeded with a CipherValue template the
\* chain is cipher (encoding) then base64 encoder; after a successful
\* decryption of a CipherValue it is base64 decoder then cipher (decoding);
\* and a successful DecryptToBuffer or Decrypt, with the key BinaryEncrypt
\* used, of what a successful BinaryEncrypt wrote yields the octets that
\* were encrypted.
BinaryRoundTrip ==
    /\ (last.op = "BinaryEncrypt" /\ last.ret = 0 /\ ctx.cipherValueNode # 0)
          => ChainOf(ctx, heap) = << [klass |-> "aes", encode |-> TRUE],
                                     [klass |-> "base64", encode |-> TRUE] >>
    /\ (last.op \in DecryptOps /\ last.ret = 0 /\ ctx.cipherValueNode # 0)
          => ChainOf(ctx, heap) = << [klass |-> "base64", encode |-> FALSE],
                                     [klass |-> "aes", encode |-> FALSE] >>
    /\ (/\ last.op \in DecryptOps /\ last.ret = 0
        /\ prov.op = "BinaryEncrypt" /\ prov.ok /\ ctx.encKey = prov.key)
          => ctx.encResult = Some(prov.data)

\* a second context has decrypted the non-empty plaintext of BinaryEncrypt
BinaryRoundTripDone ==
    /\ last.op = "DecryptToBuffer" /\ last.ret = 0 /\ lives = 2
    /\ prov.op = "BinaryEncrypt" /\ prov.ok /\ ctx.encKey = prov.key
    /\ Len(prov.data) > 0 /\ ctx.encResult = Some(prov.data)

\* C3: a successful Decrypt, with the key XmlEncrypt used, of the
\* EncryptedData element a successful XmlEncrypt left in the host document
\* gives the host document back as it was before the encryption, in
\* element mode and in content mode, and sets replaced.
XmlRoundTrip ==
    (/\ last.op = "Decrypt" /\ last.ret = 0
     /\ prov.op = "XmlEncrypt" /\ prov.ok /\ ctx.encKey = prov.key)
       => host = host0 /\ ctx.replaced

\* the content of an element has been encrypted and decrypted again
XmlRoundTripDone ==
    /\ last.op = "Decrypt" /\ last.ret = 0 /\ lives = 2
    /\ prov.op = "XmlEncrypt" /\ prov.ok /\ ctx.encKey = prov.key
    /\ ctx.type = TypeEncContent /\ Len(prov.data) > 0
    /\ host = host0

\* C4: an operation that has stated the cipher's key requirement and is
\* left without a key, or with a key of another type, fails with
\* KEY_NOT_FOUND; and in a run that fails with KEY_NOT_FOUND the key is not
\* set on the cipher, no octets and no end of input reach the chain,
\* encResult stays null and the template and both documents are untouched.
KeyMatchEnforced ==
    [][ops' = ops + 1
          => /\ (/\ Called(last'.tr, "setKeyReq") /\ phase' = "live"
                 /\ \/ IsNull(ctx'.encKey)
                    \/ /\ ctx'.keyReq # "any"
                       /\ Val(ctx'.encKey).type # ctx'.keyReq)
                   => last'.err = "KEY_NOT_FOUND"
             /\ last'.err = "KEY_NOT_FOUND"
                   => /\ ~Called(last'.tr, "setKey")
                      /\ ~Called(last'.tr, "pushBin")
                      /\ ~Called(last'.tr, "eof")
                      /\ ~Called(last'.tr, "execute")
                      /\ IsNull(ctx'.encResult)
                      /\ heap'[ctx'.encMethod].key = None
                      /\ tmpl' = tmpl /\ tdoc' = tdoc /\ host' = host]_vars

\* a key of the wrong type has been turned down
KeyMismatchRefused ==
    /\ last.err = "KEY_NOT_FOUND"
    /\ ~IsNull(ctx.encKey) /\ Val(ctx.encKey).type # ctx.keyReq

\* C5: an XmlEncrypt or Decrypt that returns failure has not turned the
\* replaced flag on and has not modified the host document.
NoPartialMutation ==
    [][(ops' = ops + 1 /\ last'.op \in {"XmlEncrypt", "Decrypt"}
        /\ last'.ret = -1)
          => /\ ctx'.replaced = ctx.replaced
             /\ host' = host]_vars

\* how often the release e is among the releases tr
Count(tr, e) == Cardinality({i \in 1..Len(tr) : tr[i] = e})

\* C6: Finalize releases both key-info contexts once each, the key and each
\* string attribute at most once, every transform the context created
\* exactly once, and never a transform the caller handed over.
FinalizeOwnership ==
    last.op = "Finalize"
       => /\ \A id \in 1..Len(heap) :
                Count(last.tr, Ev("destroyTransform", id))
                   = IF heap[id].owner = "ctx" THEN 1 ELSE 0
          /\ Count(last.tr, Ev("keyInfoCtxFinalize", 1)) = 1
          /\ Count(last.tr, Ev("keyInfoCtxFinalize", 2)) = 1
          /\ \A i, j \in 1..Len(last.tr) :
                (last.tr[i] = last.tr[j]) => (i = j)

(***************************************************************************)
(* The children a template may have, stated on the names of its element    *)
(* children: [EncryptionMethod] [KeyInfo] CipherData                       *)
(* [EncryptionProperties], and for EncryptedKey [ReferenceList]            *)
(* [CarriedKeyName].                                                       *)
(***************************************************************************)
\* the element children of a node, text nodes dropped
Elements(kids) == SelectSeq(kids, LAMBDA n : n # "#text")

\* position i, or the one after it when the child at i is named name
Strip(k, i, name) == IF i <= Len(k) /\ k[i] = name THEN i + 1 ELSE i

\* where CipherData has to be
AfterHead(k) == Strip(k, Strip(k, 1, "EncryptionMethod"), "KeyInfo")
HasCipherData(k) == AfterHead(k) <= Len(k) /\ k[AfterHead(k)] = "CipherData"

\* the first child that is left after the children the mode allows
AfterTail(k, mode) ==
    LET a == Strip(k, AfterHead(k) + 1, "EncryptionProperties")
    IN  IF mode = "EncryptedKey"
        THEN Strip(k, Strip(k, a, "ReferenceList"), "CarriedKeyName")
        ELSE a

\* the operation l has got as far as reading the children of the template
ReadStarted(l) ==
    /\ l.op \in OpNames
    /\ l.err # "ASSERT"
    /\ ~(l.op = "UriEncrypt" /\ Count(l.tr, Ev("setUri", 0)) > 0)

\* the operation l has read the template and gone on to run the chain
ReadSucceeded(l) == l.op \in OpNames /\ Called(l.tr, "prepare")

HoldsCipherValue(t) ==
    Len(Elements(t.cd)) > 0 /\ Elements(t.cd)[1] = "CipherValue"

Base64Encoder == [klass |-> "base64", encode |-> TRUE]

\* C7: after a read that succeeded in an encrypting operation, the last
\* stage of the chain is a base64 encoder exactly when the template's
\* CipherData holds a CipherValue, and resultBase64Encoded is set exactly
\* then; without a CipherValue the chain has no base64 encoder at all.
\* After a read that succeeded in a decrypting operation the chain has no
\* base64 encoder and resultBase64Encoded is not set.
Base64Insertion ==
    ReadSucceeded(last)
       => LET ch == ChainOf(ctx, heap)
          IN  IF last.op \in EncryptOps
              THEN /\ HoldsCipherValue(tmpl)
                         <=> (Len(ch) > 0 /\ ch[Len(ch)] = Base64Encoder)
                   /\ HoldsCipherValue(tmpl) <=> ctx.resultBase64Encoded
                   /\ ~HoldsCipherValue(tmpl)
                         => \A i \in 1..Len(ch) : ch[i] # Base64Encoder
              ELSE /\ \A i \in 1..Len(ch) : ch[i] # Base64Encoder
                   /\ ~ctx.resultBase64Encoded

\* an encryption into a CipherValue has run with the encoder at the tail
Base64Inserted ==
    /\ last.op \in EncryptOps /\ last.ret = 0
    /\ HoldsCipherValue(tmpl) /\ ctx.resultBase64Encoded
    /\ ChainOf(ctx, heap)[Len(ctx.chain)] = Base64Encoder

\* C8: after a read that succeeded, either cipherValueNode is set or a
\* CipherReference source is on the chain, and not both; encMethod is set;
\* encKey is set and is of the type the cipher requires.
PreExecution ==
    ReadSucceeded(last)
       => /\ (ctx.cipherValueNode # 0)
                # (/\ ~ctx.encrypt
                   /\ \E i \in 1..Len(ctx.chain) :
                         heap[ctx.chain[i]].klass = "uri")
          /\ ctx.encMethod # 0
          /\ ~IsNull(ctx.encKey)
          /\ ctx.keyReq = "any" \/ Val(ctx.encKey).type = ctx.keyReq

\* the read has neither instantiated nor appended the encryption method,
\* nor stated its key requirement, nor asked the key manager for a key
MethodAndKeyUntouched(l) ==
    /\ ~Called(l.tr, "nodeRead") /\ ~Called(l.tr, "append")
    /\ ~Called(l.tr, "setKeyReq") /\ ~Called(l.tr, "getKey")

\* C9, as the code has it: with [EncryptionMethod] [KeyInfo] CipherData at
\* the head of the children and a CipherData that holds one CipherValue, a
\* child left after [EncryptionProperties] (and, for EncryptedKey,
\* [ReferenceList] [CarriedKeyName]) makes the read fail with
\* UNEXPECTED_NODE before the method is instantiated or appended and
\* before any key lookup, and with no child left the read does not fail
\* with UNEXPECTED_NODE; when the child where CipherData has to be is
\* another one (an out-of-order or repeated EncryptionMethod or KeyInfo
\* among them) the read fails with INVALID_NODE instead.
StrictChildOrder ==
    LET k == Elements(tmpl.kids)
    IN  ReadStarted(last)
           => /\ (HasCipherData(k) /\ Elements(tmpl.cd) = << "CipherValue" >>)
                    => IF AfterTail(k, ctx.mode) <= Len(k)
                       THEN /\ last.ret = -1
                            /\ last.err = "UNEXPECTED_NODE"
                            /\ MethodAndKeyUntouched(last)
                            /\ ctx.encMethod = 0 /\ IsNull(ctx.encKey)
                       ELSE last.err # "UNEXPECTED_NODE"
              /\ ~HasCipherData(k)
                    => /\ last.ret = -1
                       /\ last.err = "INVALID_NODE"
                       /\ MethodAndKeyUntouched(last)

\* a ReferenceList after CipherData has been turned down in an
\* EncryptedData template
LeftoverRefused ==
    /\ last.op \in OpNames /\ last.err = "UNEXPECTED_NODE"
    /\ ctx.mode = "EncryptedData"
    /\ tmpl.kids = << "EncryptionMethod", "CipherData", "ReferenceList" >>
    /\ ctx.cipherValueNode # 0

\* C9, as stated: children that hold a CipherData but are not the sequence
\* [EncryptionMethod] [KeyInfo] CipherData [EncryptionProperties]
\* ([ReferenceList] [CarriedKeyName] for EncryptedKey) make the read fail
\* with UNEXPECTED_NODE before the method is instantiated or appended and
\* before any key lookup.
StrictChildOrderAsStated ==
    LET k == Elements(tmpl.kids)
    IN  (/\ ReadStarted(last)
         /\ \E i \in 1..Len(k) : k[i] = "CipherData"
         /\ Elements(tmpl.cd) = << "CipherValue" >>
         /\ ~(HasCipherData(k) /\ AfterTail(k, ctx.mode) = Len(k) + 1))
           => /\ last.ret = -1
              /\ last.err = "UNEXPECTED_NODE"
              /\ MethodAndKeyUntouched(last)

\* C10: when the child after the optional EncryptionMethod and KeyInfo is
\* absent or is not CipherData, an operation that gets to read the
\* children fails with INVALID_NODE and the annotation node=CipherData; it
\* has added no transform to the chain (beyond the input source UriEncrypt
\* installs before the read), has not looked up a key, and has left the
\* template and both documents as they were.
MissingCipherDataFails ==
    [][(/\ ops' = ops + 1 /\ ReadStarted(last')
        /\ ~HasCipherData(Elements(tmpl.kids)))
          => /\ last'.ret = -1
             /\ last'.err = "INVALID_NODE"
             /\ last'.note = "node=CipherData"
             /\ MethodAndKeyUntouched(last')
             /\ ~Called(last'.tr, "prepend") \/ last'.op = "UriEncrypt"
             /\ Len(ctx'.chain)
                   = Len(ctx.chain) + IF last'.op = "UriEncrypt" THEN 1 ELSE 0
             /\ IsNull(ctx'.encKey) /\ ctx'.cipherValueNode = 0
             /\ tmpl' = tmpl /\ tdoc' = tdoc /\ host' = host]_vars

\* a template that ends after EncryptionMethod and KeyInfo has been
\* turned down
MissingCipherDataRefused ==
    /\ last.op \in OpNames /\ last.err = "INVALID_NODE"
    /\ last.note = "node=CipherData"
    /\ tmpl.kids = << "EncryptionMethod", "KeyInfo" >>
    /\ ctx.encMethodNode = 1 /\ ctx.keyInfoNode = 2

HoldsCipherReference(t) ==
    Len(Elements(t.cd)) > 0 /\ Elements(t.cd)[1] = "CipherReference"

\* C11: an encrypt operation on a fresh context, with a template that is
\* well formed but for a CipherReference in the place of the CipherValue
\* and with a key manager that finds a matching key, fails with
\* INVALID_DATA, does not run the chain and does not report success.
EncryptRejectsCipherReference ==
    (/\ last.op \in EncryptOps /\ ReadStarted(last)
     /\ ops = 1 /\ ctx.mode = "EncryptedData"
     /\ HoldsCipherReference(tmpl)
     /\ tmpl.kids = << "EncryptionMethod", "KeyInfo", "CipherData" >>
     /\ tmpl.alg \in CipherAlgs
     /\ mgr.key = Some(KeyAes))
       => /\ last.ret = -1
          /\ last.err = "INVALID_DATA"
          /\ ~Called(last.tr, "prepare")
          /\ ~Called(last.tr, "pushBin") /\ ~Called(last.tr, "execute")

\* one or more execute calls with last = 0, then one with last = 1
AccumulateThenLast(calls) ==
    /\ Len(calls) >= 2
    /\ calls[Len(calls)] = 1
    /\ \A i \in 1..(Len(calls) - 1) : calls[i] = 0

\* C12: when the execute calls made on a stage since it was created are
\* one or more with last = 0 followed by one with last = 1, and that last
\* call has succeeded, the status is Finished, inBuf is empty and outBuf
\* holds the output of the stylesheet for all the octets that were
\* appended to inBuf.
XsltSuccessPath ==
    (/\ last.op = "XsltExecute" /\ last.ret = 0
     /\ AccumulateThenLast(xhist.calls))
       => /\ stage.status = "Finished"
          /\ stage.inBuf = <<>>
          /\ ~IsNull(stage.xslt)
          /\ XslOutput(xhist.fed, Val(stage.xslt)).ok
          /\ stage.outBuf = XslOutput(xhist.fed, Val(stage.xslt)).out

\* a document has gone through the copying stylesheet after two calls with
\* last = 0
XsltSuccessPathDone ==
    /\ last.op = "XsltExecute" /\ last.ret = 0
    /\ xhist.calls = << 0, 0, 1 >>
    /\ stage.status = "Finished" /\ stage.inBuf = <<>>
    /\ stage.outBuf = DumpNode(Elem("item", << Text("x") >>))

\* C13, as the code has it: execute on a stage that is Finished, holds a
\* stylesheet and has octets in inBuf fails through the assertion
\* inSize == 0, not with INVALID_STATUS, and leaves the status and both
\* buffers as they were.
FinishedWithInputFails ==
    [][(/\ last'.op = "XsltExecute" /\ ops' = ops + 1
        /\ stage.status = "Finished" /\ ~IsNull(stage.xslt)
        /\ Len(stage.inBuf) > 0)
          => /\ last'.ret = -1
             /\ last'.err = "ASSERT"
             /\ stage' = stage]_vars

\* execute has been refused on a finished stage that was given more input
FinishedWithInputRefused ==
    /\ last.op = "XsltExecute" /\ last.ret = -1 /\ last.err = "ASSERT"
    /\ stage.status = "Finished" /\ ~IsNull(stage.xslt)
    /\ Len(stage.inBuf) > 0

\* C13, as stated: execute on a stage that is Finished and has octets in
\* inBuf fails with INVALID_STATUS and leaves the status and both buffers
\* as they were.
FinishedWithInputInvalidStatus ==
    [][(/\ last'.op = "XsltExecute" /\ ops' = ops + 1
        /\ stage.status = "Finished" /\ ~IsNull(stage.xslt)
        /\ Len(stage.inBuf) > 0)
          => /\ last'.ret = -1
             /\ last'.err = "INVALID_STATUS"
             /\ stage' = stage]_vars

\* C14: in a Decrypt call that returns, the replacement of the
\* EncryptedData node by the decrypted buffer is attempted exactly when
\* DecryptToBuffer has succeeded and the Type read is Element or Content.  With another Type, or none,
\* Decrypt returns success with the documents unchanged and replaced
\* false; with Element or Content replaced is true exactly when Decrypt
\* returns success, and a failed replacement leaves the documents as they
\* were.  When DecryptToBuffer fails, Decrypt fails and touches neither
\* the documents nor replaced.
DecryptReplacesByType ==
    [][(ops' = ops + 1 /\ last'.op = "Decrypt" /\ phase' = "live")
          => LET buffered == IsNull(ctx.encResult) /\ ~IsNull(ctx'.encResult)
                 typed == ctx'.type \in {TypeEncElement, TypeEncContent}
                 tried == Called(last'.tr, "replaceNodeBuffer")
             IN  /\ tried <=> (buffered /\ typed)
                 /\ (buffered /\ ~typed)
                       => /\ last'.ret = 0 /\ ~ctx'.replaced
                          /\ host' = host /\ tdoc' = tdoc
                 /\ tried
                       => /\ ctx'.replaced <=> last'.ret = 0
                          /\ last'.ret = -1 => (host' = host /\ tdoc' = tdoc)
                 /\ ~buffered
                       => /\ last'.ret = -1
                          /\ ctx'.replaced = ctx.replaced
                          /\ host' = host /\ tdoc' = tdoc
                 /\ tmpl' = tmpl]_vars

\* an EncryptedData without a Type has been decrypted and left in place
DecryptLeftInPlace ==
    /\ last.op = "Decrypt" /\ last.ret = 0
    /\ ctx.type = NULLSTR /\ ~ctx.replaced
    /\ ~IsNull(ctx.encResult) /\ Len(Val(ctx.encResult)) > 0
    /\ HasEnc(tdoc)

\* C15: an XmlEncrypt call that returns, on a template whose Type is
\* neither the Element nor the Content URI (or is missing), returns
\* failure; when it has got as far as the output buffer of the chain the
\* error is INVALID_TYPE; nothing of the source node is dumped or pushed
\* into the chain, encResult and replaced stay as they were, and the
\* template and both documents are unchanged.
UnknownTypeRejected ==
    [][(/\ ops' = ops + 1 /\ last'.op = "XmlEncrypt" /\ phase' = "live"
        /\ tmpl.attrs.Type \notin {TypeEncElement, TypeEncContent})
          => /\ last'.ret = -1
             /\ Called(last'.tr, "createOutputBuffer")
                   => last'.err = "INVALID_TYPE"
             /\ ~Called(last'.tr, "dump") /\ ~Called(last'.tr, "pushBin")
             /\ ~Called(last'.tr, "setContent")
             /\ ~Called(last'.tr, "keyInfoWrite")
             /\ ctx'.encResult = ctx.encResult
             /\ ctx'.replaced = ctx.replaced
             /\ tmpl' = tmpl /\ tdoc' = tdoc /\ host' = host]_vars

\* XmlEncrypt has turned down a template without a Type after it had read
\* the template, found the key and opened the output buffer
UnknownTypeRefused ==
    /\ last.op = "XmlEncrypt" /\ last.ret = -1
    /\ last.err = "INVALID_TYPE"
    /\ ctx.type = NULLSTR /\ ~IsNull(ctx.encKey)
    /\ Called(last.tr, "createOutputBuffer")
    /\ IsNull(ctx.encResult) /\ ~ctx.replaced

\* the collaborator call named name has been made and has succeeded
Did(tr, name) == \E i \in 1..Len(tr) : tr[i] = Ev(name, 1)

\* C16: the template changes only in an encrypt operation that has written
\* the CipherValue content or the KeyInfo; the documents change only in an
\* XmlEncrypt or Decrypt whose replacement has succeeded; DecryptToBuffer
\* changes neither; and an operation that ends with encResult null (it has
\* failed before cipherDataNodeWrite or before the replacement) changes
\* neither.
MutationConfined ==
    [][/\ tmpl' # tmpl
             => /\ ops' = ops + 1 /\ last'.op \in EncryptOps
                /\ Called(last'.tr, "setContent")
                      \/ Did(last'.tr, "keyInfoWrite")
       /\ (tdoc' # tdoc \/ host' # host)
             => /\ ops' = ops + 1 /\ last'.ret = 0
                /\ \/ /\ last'.op = "XmlEncrypt"
                      /\ Did(last'.tr, "replaceNode")
                            \/ Did(last'.tr, "replaceContent")
                   \/ /\ last'.op = "Decrypt"
                      /\ Did(last'.tr, "replaceNodeBuffer")
       /\ (ops' = ops + 1
           /\ (last'.op = "DecryptToBuffer" \/ IsNull(ctx'.encResult)))
             => (tmpl' = tmpl /\ tdoc' = tdoc /\ host' = host)]_vars

\* XmlEncrypt has written the CipherValue and then failed to put the
\* template into the host document
WrittenNotSpliced ==
    /\ last.op = "XmlEncrypt" /\ last.ret = -1
    /\ Called(last.tr, "setContent") /\ Len(tmpl.cv) > 0
    /\ Called(last.tr, "replaceNode") /\ ~Did(last.tr, "replaceNode")
    /\ host = host0 /\ tdoc = << EncNode >>

\* the read has come to the selection of the encryption method
SelectionReached(l) ==
    \/ Called(l.tr, "nodeRead")
    \/ Called(l.tr, "setKeyReq")
    \/ l.note = "encryption method not specified"

\* the context holds an encryption method that its caller has set
CallerPreset(c, h) ==
    IF c.encMethod = 0 THEN FALSE ELSE h[c.encMethod].owner = "caller"

\* C17: in an operation that comes to the selection of the encryption
\* method, a method preset by the caller is appended to the chain,
\* dontDestroyEncMethod is set and the EncryptionMethod node is not
\* instantiated; with no preset and an EncryptionMethod node the method is
\* instantiated from the node and dontDestroyEncMethod stays 0; with
\* neither the read fails with INVALID_DATA.
MethodSelection ==
    [][(ops' = ops + 1 /\ phase' = "live" /\ SelectionReached(last'))
          => /\ CallerPreset(ctx, heap)
                   => /\ Count(last'.tr, Ev("append", ctx.encMethod)) = 1
                      /\ ctx'.encMethod = ctx.encMethod
                      /\ ctx'.dontDestroyEncMethod
                      /\ ~Called(last'.tr, "nodeRead")
             /\ (~CallerPreset(ctx, heap) /\ ctx'.encMethodNode # 0)
                   => /\ Called(last'.tr, "nodeRead")
                      /\ ~ctx'.dontDestroyEncMethod
                      /\ last'.err # "INVALID_DATA"
             /\ (~CallerPreset(ctx, heap) /\ ctx'.encMethodNode = 0)
                   => (last'.ret = -1 /\ last'.err = "INVALID_DATA")]_vars

\* the caller's method has been chosen although the template names one
PresetMethodWins ==
    /\ last.op \in OpNames /\ last.ret = 0
    /\ CallerPreset(ctx, heap)
    /\ ctx.encMethodNode # 0 /\ ctx.dontDestroyEncMethod
    /\ ~Called(last.tr, "nodeRead")

\* the number of calls of the getKey hook in a trace
GetKeyCalls(tr) == Cardinality({i \in 1..Len(tr) : tr[i].ev = "getKey"})

\* C18: an operation that returns calls the getKey hook at most once, and
\* only when the context held no key, the read has recorded a KeyInfo node
\* and the key manager has the hook; a key the context already held is
\* never replaced, and when that key does not meet the requirement of the
\* cipher the operation fails with KEY_NOT_FOUND without asking the key
\* manager.
KeyResolution ==
    [][(ops' = ops + 1 /\ phase' = "live")
          => /\ GetKeyCalls(last'.tr) <= 1
             /\ Called(last'.tr, "getKey")
                   => /\ IsNull(ctx.encKey)
                      /\ ctx'.keyInfoNode # 0
                      /\ Count(last'.tr, Ev("getKey", ctx'.keyInfoNode)) = 1
                      /\ mgr.present /\ mgr.hook
                      /\ ctx'.encKey = mgr.key
             /\ ~IsNull(ctx.encKey)
                   => /\ ctx'.encKey = ctx.encKey
                      /\ (Called(last'.tr, "setKeyReq")
                          /\ ~KeyMatch(Val(ctx.encKey), ctx'.keyReq))
                            => /\ last'.ret = -1
                               /\ last'.err = "KEY_NOT_FOUND"
                               /\ ~Called(last'.tr, "setKey")]_vars

\* the caller's key does not fit the cipher and the operation has failed,
\* although the key manager holds a key that fits
PresetKeyRefused ==
    /\ last.op \in OpNames /\ last.ret = -1 /\ last.err = "KEY_NOT_FOUND"
    /\ ctx.encKey = Some(KeyRsa) /\ ctx.keyInfoNode # 0
    /\ mgr.present /\ mgr.hook /\ mgr.key = Some(KeyAes)
    /\ KeyMatch(KeyAes, ctx.keyReq)
    /\ ~Called(last.tr, "getKey")

Stage(klass) == [klass |-> klass, encode |-> FALSE]
Base64Decoder == Stage("base64")

\* the transforms listed in the <Transforms> child of the CipherReference
ListedTransforms(t) ==
    IF IsNode(t.cr.kids, NextElement(t.cr.kids, 1), "Transforms")
    THEN [i \in 1..Len(t.cr.transforms) |-> Stage(t.cr.transforms[i])]
    ELSE <<>>

NoBase64Decoder(ch) == \A i \in 1..Len(ch) : ch[i] # Base64Decoder

\* C19: after a read that succeeded in a decrypting operation, with a
\* CipherValue the chain is the base64 decoder followed by the cipher; with
\* a CipherReference it is the URI source when the reference has a URI
\* attribute, then the listed transforms in document order, then the
\* cipher, with no base64 decoder put before them.  After a read that
\* succeeded in an encrypting operation the chain has no base64 decoder.
DecryptChainOrder ==
    ReadSucceeded(last)
       => LET ch == ChainOf(ctx, heap)
              cipher == << Stage(tmpl.alg) >>
              source == IF tmpl.cr.uri # NULLSTR THEN << Stage("uri") >>
                        ELSE <<>>
          IN  /\ (last.op \in DecryptOps /\ HoldsCipherValue(tmpl))
                    => ch = << Base64Decoder >> \o cipher
              /\ (last.op \in DecryptOps /\ HoldsCipherReference(tmpl))
                    => ch = source \o ListedTransforms(tmpl) \o cipher
              /\ last.op \in EncryptOps => NoBase64Decoder(ch)

\* C19 as it is stated: with a CipherReference the chain always starts with
\* the URI source and holds no base64 decoder.
DecryptChainOrderAsStated ==
    ReadSucceeded(last)
       => LET ch == ChainOf(ctx, heap)
              cipher == << Stage(tmpl.alg) >>
          IN  /\ (last.op \in DecryptOps /\ HoldsCipherValue(tmpl))
                    => ch = << Base64Decoder >> \o cipher
              /\ (last.op \in DecryptOps /\ HoldsCipherReference(tmpl))
                    => /\ ch = << Stage("uri") >> \o ListedTransforms(tmpl)
                                  \o cipher
                       /\ NoBase64Decoder(ch)
              /\ last.op \in EncryptOps => NoBase64Decoder(ch)

\* a CipherReference with a URI and a listed base64 transform has been read
\* for decryption
ReferenceChainBuilt ==
    /\ last.op \in DecryptOps /\ ReadSucceeded(last)
    /\ HoldsCipherReference(tmpl) /\ tmpl.cr.uri # NULLSTR
    /\ ChainOf(ctx, heap) = << Stage("uri"), Base64Decoder, Stage("aes") >>

\* every call named b in the trace comes after a call named a
Before(tr, a, b) ==
    \A k \in 1..Len(tr) :
        tr[k].ev = b => \E j \in 1..(k - 1) : tr[j].ev = a

\* the chain has been run: end of input pushed in, or the source pulled
ChainRun(tr) == Called(tr, "eof") \/ Called(tr, "execute")

Spliced(tr) == Called(tr, "replaceNode") \/ Called(tr, "replaceContent")

\* C21: a step that puts the template into the host document is an
\* XmlEncrypt in which the cipher data has been written before the
\* replacement, and in the state it leaves encResult is not null and the
\* CipherValue of the template holds the octets of encResult; an XmlEncrypt
\* that ends with encResult null, or whose key-info writer has failed,
\* makes no replacement.
SpliceAfterWrite ==
    [][/\ (~HasEnc(host) /\ HasEnc(host'))
             => /\ last'.op = "XmlEncrypt" /\ last'.ret = 0
                /\ Before(last'.tr, "setContent", "replaceNode")
                /\ Before(last'.tr, "setContent", "replaceContent")
                /\ ~IsNull(ctx'.encResult)
                /\ Len(tmpl'.cv) > 0 /\ tmpl'.cv = Val(ctx'.encResult)
                /\ tdoc' = <<>>
       /\ (ops' = ops + 1 /\ last'.op = "XmlEncrypt"
           /\ (IsNull(ctx'.encResult) \/ Count(last'.tr, Ev("keyInfoWrite", 0)) > 0))
             => (~Spliced(last'.tr) /\ host' = host)]_vars

\* the children of a host element have been replaced by the template,
\* which holds the ciphertext
ContentSpliced ==
    /\ last.op = "XmlEncrypt" /\ last.ret = 0
    /\ Did(last.tr, "replaceContent")
    /\ \E i \in 1..Len(host) : host[i].kids = << EncNode >>
    /\ ~IsNull(ctx.encResult) /\ tmpl.cv = Val(ctx.encResult)

\* C22: after a BinaryEncrypt, XmlEncrypt or UriEncrypt in which
\* cipherDataNodeWrite has succeeded, replaced is true, and when
\* cipherValueNode is set the CipherValue of the template holds the octets
\* of encResult.
WriteSetsReplaced ==
    (/\ last.op \in EncryptOps
     /\ ~IsNull(ctx.encResult)
     /\ last.ret = 0 \/ Spliced(last.tr))
       => /\ ctx.replaced
          /\ ctx.cipherValueNode # 0 => tmpl.cv = Val(ctx.encResult)

\* the fields of the context that the read of a template and the
\* operations after it set
ReadFields(c) ==
    << c.id, c.type, c.mimeType, c.encoding, c.recipient, c.carriedKeyName,
       c.encMethodNode, c.keyInfoNode, c.cipherValueNode, c.encMethod,
       c.dontDestroyEncMethod, c.encKey, c.keyReq, c.chain, c.uri, c.result,
       c.encResult, c.replaced, c.resultBase64Encoded >>

\* C23: in a UriEncrypt that returns, setUri is called before anything of
\* the template is read; when the read succeeds the URI source is the
\* head of the chain and the cipher comes after it; when setUri fails the
\* operation fails with the fields of the context as they were (null on a
\* fresh context), no transform created or appended, no key looked up or
\* set, and nothing written into the template.
UriBeforeRead ==
    [][(ops' = ops + 1 /\ last'.op = "UriEncrypt" /\ phase' = "live")
          => /\ Before(last'.tr, "setUri", "nodeRead")
             /\ Before(last'.tr, "setUri", "append")
             /\ Before(last'.tr, "setUri", "getKey")
             /\ Called(last'.tr, "prepare")
                   => /\ ChainOf(ctx', heap')[1] = Stage("uri")
                      /\ \E i \in 2..Len(ctx'.chain) :
                            ctx'.chain[i] = ctx'.encMethod
             /\ Count(last'.tr, Ev("setUri", 0)) > 0
                   => /\ last'.ret = -1
                      /\ ReadFields(ctx') = ReadFields(ctx)
                      /\ heap' = heap /\ tmpl' = tmpl
                      /\ last'.tr = << Ev("addIDs", 0), Ev("setUri", 0) >>]_vars

\* a UriEncrypt on a fresh context has failed in setUri
SetUriRefused ==
    /\ last.op = "UriEncrypt" /\ last.ret = -1 /\ ops = 1
    /\ Count(last.tr, Ev("setUri", 0)) = 1
    /\ ctx.id = NULLSTR /\ ctx.type = NULLSTR
    /\ ctx.encMethodNode = 0 /\ ctx.keyInfoNode = 0 /\ ctx.cipherValueNode = 0
    /\ ctx.chain = <<>> /\ IsNull(ctx.encKey) /\ tmpl.cv = <<>>

\* the step is a call of execute with the given value of last
ExecuteCalled(lastFlag) ==
    /\ ops' = ops + 1 /\ last'.op = "XsltExecute"
    /\ xhist'.calls = Append(xhist.calls, lastFlag)

\* C24, as the code has it: on a stage that holds a stylesheet and whose
\* status is None or Working, a call of execute with last = 0 succeeds,
\* leaves the status Working, inBuf as it was and outBuf empty; and octets
\* come into outBuf only in a call of execute with last = 1 that succeeds.
Accumulates ==
    [][/\ (/\ ExecuteCalled(0)
           /\ stage.status \in {"None", "Working"}
           /\ ~IsNull(stage.xslt))
             => /\ last'.ret = 0
                /\ stage'.status = "Working"
                /\ stage'.inBuf = stage.inBuf
                /\ stage'.outBuf = <<>>
                /\ stage'.xslt = stage.xslt
       /\ (Len(stage'.outBuf) > 0 /\ stage'.outBuf # stage.outBuf)
             => (ExecuteCalled(1) /\ last'.ret = 0)]_vars

\* C24 as it is stated: every call of execute with last = 0 on a stage
\* whose status is None or Working succeeds.
AccumulatesAsStated ==
    [][(ExecuteCalled(0) /\ stage.status \in {"None", "Working"})
          => /\ last'.ret = 0
             /\ stage'.status = "Working"
             /\ stage'.inBuf = stage.inBuf
             /\ stage'.outBuf = <<>>]_vars

\* two calls with last = 0 have left the input where it was
AccumulatedTwice ==
    /\ last.op = "XsltExecute" /\ last.ret = 0
    /\ Len(xhist.calls) >= 2
    /\ \A i \in 1..Len(xhist.calls) : xhist.calls[i] = 0
    /\ stage.status = "Working"
    /\ Len(stage.inBuf) > 0 /\ stage.inBuf = xhist.fed
    /\ stage.outBuf = <<>>

\* the order of the statuses of a transform
StatusRank(status) ==
    IF status = "None" THEN 0 ELSE IF status = "Working" THEN 1 ELSE 2

\* C25: no step takes the status of the stage back: it goes from None to
\* Working to Finished; a call of execute on a finished stage, whether it
\* succeeds or fails and whatever last is, leaves the stage Finished and
\* outBuf as it was.
StatusMonotone ==
    [][/\ stage'.status \in {"None", "Working", "Finished"}
       /\ StatusRank(stage'.status) >= StatusRank(stage.status)
       /\ (stage.status = "Finished" /\ last'.op = "XsltExecute")
             => (stage'.status = "Finished" /\ stage'.outBuf = stage.outBuf)
       /\ stage'.status # stage.status
             => (last'.op = "XsltExecute" /\ ops' = ops + 1)]_vars

\* execute has been called again on a stage that had finished with output
CalledAfterFinished ==
    /\ last.op = "XsltExecute"
    /\ Len(xhist.calls) >= 2 /\ xhist.calls[1] = 1
    /\ stage.status = "Finished" /\ Len(stage.outBuf) > 0

\* the collaborator call named name has been made and has failed
Failed(tr, name) == \E i \in 1..Len(tr) : tr[i] = Ev(name, 0)

\* C26, as the code has it: a readNode whose dumped children do not parse
\* as a document fails with XMLSEC_FAILED and frees the buffer; one whose
\* document does not compile as a stylesheet fails with XSLT_FAILED and
\* frees the document and then the buffer; in both cases the stage holds
\* no stylesheet.
ReadNodeErrors ==
    (last.op = "XsltReadNode" /\ Called(last.tr, "xmlSecParseMemory"))
       => /\ Failed(last.tr, "xmlSecParseMemory")
                => /\ last.ret = -1 /\ last.err = "XMLSEC_FAILED"
                   /\ IsNull(stage.xslt)
                   /\ ~Called(last.tr, "xsltParseStylesheetDoc")
                   /\ ~Called(last.tr, "xmlFreeDoc")
                   /\ last.tr[Len(last.tr)].ev = "xmlBufferFree"
          /\ Failed(last.tr, "xsltParseStylesheetDoc")
                => /\ last.ret = -1 /\ last.err = "XSLT_FAILED"
                   /\ IsNull(stage.xslt)
                   /\ last.tr[Len(last.tr) - 1].ev = "xmlFreeDoc"
                   /\ last.tr[Len(last.tr)].ev = "xmlBufferFree"
          /\ last.ret = 0
                => /\ ~IsNull(stage.xslt)
                   /\ ~Called(last.tr, "xmlFreeDoc")
                   /\ last.tr[Len(last.tr)].ev = "xmlBufferFree"

\* C26 as it is stated: the failure to parse is reported as XML_FAILED.
ReadNodeErrorsAsStated ==
    (last.op = "XsltReadNode" /\ Called(last.tr, "xmlSecParseMemory"))
       => /\ Failed(last.tr, "xmlSecParseMemory")
                => /\ last.ret = -1 /\ last.err = "XML_FAILED"
                   /\ IsNull(stage.xslt)
          /\ Failed(last.tr, "xsltParseStylesheetDoc")
                => /\ last.ret = -1 /\ last.err = "XSLT_FAILED"
                   /\ IsNull(stage.xslt)

\* the children of the Transform node were not a document
StylesheetParseRefused ==
    /\ last.op = "XsltReadNode" /\ last.ret = -1
    /\ Failed(last.tr, "xmlSecParseMemory")
    /\ last.err = "XMLSEC_FAILED" /\ IsNull(stage.xslt)

\* the stages of the chain that are ciphers
CipherStages(c, h) ==
    {i \in 1..Len(c.chain) : h[c.chain[i]].klass \in CipherAlgs}

\* C27: no transform is in the chain twice, and the chain holds the
\* encryption method at most once, whatever operations have failed on the
\* context before.
NoSecondCopy ==
    /\ \A i, j \in 1..Len(ctx.chain) : ctx.chain[i] = ctx.chain[j] => i = j
    /\ Cardinality({i \in 1..Len(ctx.chain) : ctx.chain[i] = ctx.encMethod})
          <= 1
    /\ Cardinality(CipherStages(ctx, heap)) <= 1

\* C28: with no key manager, no operation reads the getKey hook through
\* the absent manager, and an operation that has come to the key with a
\* KeyInfo node recorded and no key in the context ends with
\* KEY_NOT_FOUND.
AbsentManagerSafe ==
    ~mgr.present
       => /\ phase # "crashed"
          /\ (/\ last.op \in OpNames
              /\ Called(last.tr, "setKeyReq")
              /\ ctx.keyInfoNode # 0 /\ IsNull(ctx.encKey))
                => (last.ret = -1 /\ last.err = "KEY_NOT_FOUND")

\* the operation has failed, if at all, after the chain has been run: in
\* the key-info writer, in a replacement, or in an assertion on the result
FailedAfterChain(l) ==
    \/ l.ret = 0
    \/ Failed(l.tr, "keyInfoWrite")
    \/ Failed(l.tr, "replaceNode") \/ Failed(l.tr, "replaceContent")
    \/ Failed(l.tr, "replaceNodeBuffer")
    \/ l.err = "ASSERT"

ProcessFailed(l) ==
    Failed(l.tr, "xmlSecParseMemory") \/ Failed(l.tr, "xsltApplyStylesheet")

\* C30: a call of execute with last = 1 that fails in the processing
\* leaves the status Working, inBuf with all its octets, outBuf empty and
\* the stylesheet in place; and a call with last = 1 on a stage that is
\* Working, with a stylesheet and an empty outBuf, runs the processing from
\* its start, whatever has failed before.
FailedProcessKeepsWorking ==
    [][/\ (ExecuteCalled(1) /\ ProcessFailed(last'))
             => /\ last'.ret = -1
                /\ stage'.status = "Working"
                /\ stage'.inBuf = stage.inBuf
                /\ stage'.outBuf = <<>>
                /\ stage'.xslt = stage.xslt
       /\ (/\ ExecuteCalled(1)
           /\ stage.status = "Working" /\ ~IsNull(stage.xslt)
           /\ stage.outBuf = <<>>)
             => /\ last'.tr[1].ev = "xmlSecParseMemory"
                /\ last'.ret = 0 <=> XslOutput(stage.inBuf, Val(stage.xslt)).ok
                /\ last'.ret = 0 => stage'.status = "Finished"]_vars

\* execute with last = 1 has failed twice on the same input
ProcessFailedTwice ==
    /\ last.op = "XsltExecute" /\ last.ret = -1
    /\ ProcessFailed(last)
    /\ xhist.calls = << 1, 1 >>
    /\ stage.status = "Working"
    /\ Len(stage.inBuf) > 0 /\ stage.inBuf = xhist.fed
    /\ stage.outBuf = <<>>

\* the octets the chain makes of an empty input, when every stage accepts
\* it
EmptyRun(c, h) == RunStages(h, c.chain, 1, <<>>)

\* C31: an XmlEncrypt that fails with INVALID_TYPE has read the template,
\* set the key to the encryption method, prepared the chain and created
\* the output buffer, in this order, and the last thing it does is to close
\* that buffer: end of input reaches the chain with no octet pushed into
\* it, the chain runs on the empty input, the operation returns failure
\* and encResult is still null.
UnknownTypeClosesSink ==
    [][(/\ ops' = ops + 1 /\ last'.op = "XmlEncrypt" /\ phase' = "live"
        /\ last'.err = "INVALID_TYPE")
          => /\ last'.ret = -1
             /\ ctx'.type \notin {TypeEncElement, TypeEncContent}
             /\ ctx'.encMethod # 0 /\ ~IsNull(ctx'.encKey)
             /\ heap'[ctx'.encMethod].key = ctx'.encKey
             /\ Did(last'.tr, "prepare")
             /\ Before(last'.tr, "setKey", "prepare")
             /\ Before(last'.tr, "prepare", "createOutputBuffer")
             /\ Before(last'.tr, "createOutputBuffer", "eof")
             /\ last'.tr[Len(last'.tr)] = Ev("eof", 0)
             /\ Cardinality({i \in 1..Len(last'.tr) :
                                last'.tr[i].ev = "eof"}) = 1
             /\ ~Called(last'.tr, "dump") /\ ~Called(last'.tr, "pushBin")
             /\ EmptyRun(ctx', heap').ok
                   => ctx'.result = Some(EmptyRun(ctx', heap').out)
             /\ IsNull(ctx'.encResult)]_vars

\* the output buffer was closed on a chain that had been given nothing,
\* and the chain has left its result while encResult is null
SinkClosedOnNothing ==
    /\ last.op = "XmlEncrypt" /\ last.ret = -1
    /\ last.err = "INVALID_TYPE" /\ ctx.type = "text/plain"
    /\ last.tr[Len(last.tr)] = Ev("eof", 0)
    /\ ~Called(last.tr, "pushBin")
    /\ ~IsNull(ctx.result) /\ IsNull(ctx.encResult)

=============================================================================
